---- MODULE Spec2Model ----
(***************************************************************************)
(* Order execution and portfolio settlement of the strategy simulator.     *)
(*                                                                         *)
(* Two ledgers are modelled, each from its own source:                     *)
(*   - the server ledger  (hono-backend trading.ts / state.ts): the async  *)
(*     placeOrder / executeOrder / cancelOrder, each suspended at its      *)
(*     awaited getLatestPrice;                                             *)
(*   - the client ledger  (frontend orderExecutor.ts, driven by            *)
(*     tradingLogic.ts and the WebSocket message handler): the synchronous *)
(*     executePlaceOrder / executeFillOrder / checkAndFillOrders /         *)
(*     executeCancelOrder over the localStorage copy of the ledger.        *)
(* The two never share state; `ledger` says which one a behaviour runs.    *)
(*                                                                         *)
(* Money and prices are integers counted in cents (1/100 of a currency     *)
(* unit).  Prices and quantities are chosen so that every product and      *)
(* commission is a whole number of cents, so the arithmetic is exact.      *)
(***************************************************************************)
EXTENDS Integers, Sequences, FiniteSets, TLC

(* ------------------------------ bounds --------------------------------- *)
\* orders one ledger may hold
MaxOrders == 2
\* server invocations suspended at an await at the same time
MaxCalls == 2
\* ticks of the client's clock; one tick is a lapse longer than the 30 s a quote may age
MaxTicks == 2
\* ticks from one UTC midnight to the next
TicksPerDay == 2
\* orders of the client ledger in the specification of the double sell
MaxSellOrders == 3
\* seconds the clock of the push throttle runs for, and calls of sendSnapshot recorded
MaxSeconds == 8
MaxPushes == 3

(* --------------------------- input domains ----------------------------- *)
Symbols == {"S"}
\* symbols quotes are pushed for: the traded one and one nobody holds or orders
QuoteSymbols == Symbols \cup {"T"}
Markets == {"US", "HK"}
Sides == {"BUY", "SELL"}
OrderTypes == {"MARKET", "LIMIT"}
\* quotes the pricing gateway may answer with (40.00 and 60.00)
Prices == {4000, 6000}
Quantities == {150, 200}
\* `price: null` / `price: undefined` of an order or a request
NoPrice == 0 - 1
LimitPrices == {NoPrice, 5000}

Max(a, b) == IF a >= b THEN a ELSE b
Min(a, b) == IF a <= b THEN a ELSE b

(* ------------------------- server: state.ts ---------------------------- *)
marketToCurrency == [US |-> "usd", HK |-> "hkd", CN |-> "cny"]
Currencies == {"usd", "hkd", "cny"}

\* commissionRate is held in units of 1e-5 (0.005 = 500), minCommission in cents
marketDefaults ==
  [US |-> [minCommission |-> 100,  commissionRate |-> 500, minOrderQuantity |-> 1,   lotSize |-> 1],
   HK |-> [minCommission |-> 2000, commissionRate |-> 27,  minOrderQuantity |-> 100, lotSize |-> 100],
   CN |-> [minCommission |-> 500,  commissionRate |-> 100, minOrderQuantity |-> 100, lotSize |-> 100]]

initialCapital == [usd |-> 1000000, hkd |-> 7800000, cny |-> 7200000]

createInitialUser ==
  [current_cash_usd |-> initialCapital["usd"], frozen_cash_usd |-> 0,
   current_cash_hkd |-> initialCapital["hkd"], frozen_cash_hkd |-> 0,
   current_cash_cny |-> initialCapital["cny"], frozen_cash_cny |-> 0]

\* cash keys that settle every market in US dollars
getUsdCashKeys(market) ==
  [currency |-> "usd", currentKey |-> "current_cash_usd", frozenKey |-> "frozen_cash_usd"]

getCashKeys(market) ==
  LET currency == marketToCurrency[market] IN
  [currency |-> currency,
   currentKey |-> CASE currency = "usd" -> "current_cash_usd"
                    [] currency = "hkd" -> "current_cash_hkd"
                    [] OTHER -> "current_cash_cny",
   frozenKey |-> CASE currency = "usd" -> "frozen_cash_usd"
                   [] currency = "hkd" -> "frozen_cash_hkd"
                   [] OTHER -> "frozen_cash_cny"]

calcCommission(config, notional) ==
  LET pctFee == (notional * config.commissionRate) \div 100000
  IN Max(pctFee, config.minCommission)

VARIABLES
  ledger,      \* "server" or "client": the implementation this behaviour runs
  user,        \* server: state.user (cash fields)
  positions,   \* server: state.positions
  orders,      \* server: state.orders (newest first)
  trades,      \* server: state.trades (newest first)
  nextIds,     \* server: state.nextIds
  calls,       \* server: how many invocations of each (operation, orderNo) are suspended at `await getLatestPrice`
  trading_overview,   \* client: localStorage trading_overview (balances, and their copy in user)
  trading_positions,  \* client: localStorage trading_positions
  trading_orders,     \* client: localStorage trading_orders (oldest first)
  trading_trades,     \* client: localStorage trading_trades (oldest first)
  quotes,      \* client: marketDataService.quotes, symbol -> quote
  now,         \* client: Date.now(), counted in ticks
  lastOp,      \* history: the operation of the last step, what it answered, and the price it used
  escrow,      \* history: per BUY order, what placement froze and what fill/cancel took off frozen_cash
  twin,        \* client: the localStorage ledger of a second run of the same operations, kept
               \* under another exchange-rate snapshot (switched on in RatesSpec only)
  gateway,     \* server: "answers" while the pricing gateway answers the fetch of fetchKline,
               \* "silent" once it has stopped answering (it stops in GatewaySpec only)
  lastPushTime,  \* server: websocket lastPushTime, user -> Date.now() of the last push let through (0: none)
  clock,       \* server: Date.now() in ms (it advances in PushSpec only)
  userId,      \* server: per socket, the userId of its connection closure and whether its bootstrap awaits
  pushes       \* history: the calls of sendSnapshot, oldest first

pushVars == <<lastPushTime, clock, userId, pushes>>
serverVars == <<user, positions, orders, trades, nextIds, calls, gateway, pushVars>>
storageVars == <<trading_overview, trading_positions, trading_orders, trading_trades>>
clientVars == <<storageVars, quotes, now, twin>>
vars == <<ledger, serverVars, clientVars, lastOp, escrow>>

\* exchange rates to USD are given to 4 decimals: they are counted in 1e-4
RateUnit == 10000
exchangeRates == [usd |-> 10000, hkd |-> 1289, cny |-> 1380]

\* storage.ts createDefaultOverview
createDefaultOverview ==
  [user |-> createInitialUser,
   balances_by_currency |->
     [c \in Currencies |-> [initial_capital |-> initialCapital[c],
                            current_cash |-> initialCapital[c],
                            frozen_cash |-> 0]],
   total_assets_usd |-> 0,
   positions_value_usd |-> 0,
   positions_value_by_currency |-> [c \in Currencies |-> 0],
   exchange_rates |-> exchangeRates]

\* the second run, switched off
NoTwin ==
  [on |-> FALSE, overview |-> createDefaultOverview, positions |-> <<>>, orders |-> <<>>, trades |-> <<>>]

\* the second run after an executor has answered
TwinOf(result) ==
  [on |-> TRUE, overview |-> result.overview, positions |-> result.positions,
   orders |-> result.orders, trades |-> result.trades]

\* no entry in the quotes map
NoQuote == [current_price |-> NoPrice, timestamp |-> NoPrice]

\* new Date(t).toISOString().split('T')[0]: the UTC date of an instant
dateUTC(t) == t \div TicksPerDay

OrderNos == 1..MaxOrders
\* websocket users and connections
Users == {"demo", "alice"}
Sockets == {"ws1"}
NoUser == "undefined"
\* Date.now() when the server starts, in ms since 1970: more than PUSH_INTERVAL
ClockStart == 100000
\* websocket.ts line 97
PUSH_INTERVAL == 5000

CallKeys == {"execute", "cancel"} \X OrderNos

RECURSIVE SumOver(_, _)
SumOver(f, S) ==
  IF S = {} THEN 0
  ELSE LET x == CHOOSE y \in S : TRUE IN f[x] + SumOver(f, S \ {x})

\* the state after construction, whichever implementation keeps the ledger
InitialState ==
  /\ user = createInitialUser
  /\ positions = <<>>
  /\ orders = <<>>
  /\ trades = <<>>
  /\ nextIds = [position |-> 1, order |-> 1, trade |-> 1]
  /\ calls = [k \in CallKeys |-> 0]
  /\ gateway = "answers"
  /\ lastPushTime = [u \in Users |-> 0]
  /\ clock = ClockStart
  /\ userId = [ws \in Sockets |-> [user |-> NoUser, booting |-> FALSE]]
  /\ pushes = <<>>
  /\ trading_overview = createDefaultOverview
  /\ trading_positions = <<>>
  /\ trading_orders = <<>>
  /\ trading_trades = <<>>
  /\ quotes = [s \in Symbols |-> NoQuote]
  /\ now = 0
  /\ lastOp = [op |-> "init", result |-> "ok", orderNo |-> 0, price |-> NoPrice]
  /\ escrow = <<>>

Init == ledger \in {"server", "client"} /\ InitialState /\ twin = NoTwin

(* ------------------------ server: trading.ts --------------------------- *)
AllInputs ==
  { [symbol |-> s, market |-> m, side |-> sd, order_type |-> t, price |-> p, quantity |-> q] :
      s \in Symbols, m \in Markets, sd \in Sides, t \in OrderTypes, p \in LimitPrices, q \in Quantities }

\* a MARKET request carries no price, a LIMIT request carries one
PlaceOrderInputs == { input \in AllInputs : input.order_type = "MARKET" <=> input.price = NoPrice }

\* what getLatestPrice resolves to: a quote, or a rejection
PriceResults == { [ok |-> TRUE, price |-> p] : p \in Prices } \cup { [ok |-> FALSE, price |-> 0] }

\* an invocation may start and suspend while fewer than MaxCalls are suspended
CanSuspend == SumOver(calls, CallKeys) < MaxCalls
Suspend(op, orderNo) == [calls EXCEPT ![<<op, orderNo>>] = @ + 1]
Resume(op, orderNo) == [calls EXCEPT ![<<op, orderNo>>] = @ - 1]

\* index in a sequence of the first element satisfying a test, 0 when none
RECURSIVE FindFrom(_, _, _)
FindFrom(seq, Test(_), i) ==
  IF i > Len(seq) THEN 0
  ELSE IF Test(seq[i]) THEN i ELSE FindFrom(seq, Test, i + 1)

OrderIndex(orderNo) ==
  LET T(o) == o.orderNo = orderNo IN FindFrom(orders, T, 1)

PositionIndex(symbol, market) ==
  LET T(p) == p.symbol = symbol /\ p.market = market IN FindFrom(positions, T, 1)

\* avgCost is kept to 6 decimals (roundMoney): it is counted in 1e-4 cent
AvgCostUnit == 10000

\* Number(value.toFixed(6)) of the quotient n/d, n counted in the unit of the result
roundMoney(n, d) == (2 * n + d) \div (2 * d)

\* an average cost that forgets the old cost basis: the price of the last fill
avgCostOfLastFill(oldAvgCost, oldQty, notional, newQty) ==
  (notional \div (newQty - oldQty)) * AvgCostUnit

\* roundMoney((oldAvgCost * oldQty + notional) / newQty), lines 253 and 256;
\* the product is taken in two parts so that it stays within the integers of the checker
newAvgCost(oldAvgCost, oldQty, notional, newQty) ==
  LET a == oldAvgCost \div AvgCostUnit
      b == oldAvgCost % AvgCostUnit
      whole == a * oldQty + notional
  IN (whole \div newQty) * AvgCostUnit
       + roundMoney((whole % newQty) * AvgCostUnit + b * oldQty, newQty)

\* ensurePosition: the positions with a record for (symbol, market), created empty when missing
ensurePosition(symbol, market) ==
  IF PositionIndex(symbol, market) # 0 THEN positions
  ELSE Append(positions,
         [id |-> nextIds.position, symbol |-> symbol, market |-> market,
          quantity |-> 0, availableQuantity |-> 0, avgCost |-> 0,
          lastPrice |-> NoPrice, marketValue |-> NoPrice])

\* the reference price of a placement (lines 127-138)
refPriceOf(input, marketPrice) ==
  IF input.order_type = "LIMIT" /\ input.price # NoPrice
  THEN IF input.side = "BUY" THEN input.price ELSE Min(input.price, marketPrice)
  ELSE marketPrice

\* a placement that freezes before it tests the funds: what the throw would leave behind
freezeBeforeCheck(usr, keys, cashNeeded) ==
  [ok |-> usr[keys.currentKey] >= cashNeeded,
   user |-> [usr EXCEPT ![keys.frozenKey] = @ + cashNeeded]]

\* the BUY branch of placeOrder (lines 144-153): the funds test, whose throw leaves the
\* user as it is at that point, then the freeze; current_cash is not written
freezeForBuy(usr, keys, cashNeeded) ==
  IF usr[keys.currentKey] < cashNeeded THEN [ok |-> FALSE, user |-> usr]
  ELSE [ok |-> TRUE, user |-> [usr EXCEPT ![keys.frozenKey] = @ + cashNeeded]]

\* placeOrder reaches its await of getLatestPrice (lines 117-125) when the
\* quantity has passed the checks of lines 109-115
Awaits(input) ==
  LET config == marketDefaults[input.market] IN
  input.quantity % config.lotSize = 0 /\ input.quantity >= config.minOrderQuantity

\* placeOrder (lines 94-183) followed, as in the place_order handler and in
\* POST /orders, by executeOrder(order.orderNo) up to its await.  placeOrder reads
\* and writes the ledger only after its awaited getLatestPrice has answered with r,
\* so the whole of it is one step taken at that moment.
PlaceOrder(input, r) ==
  /\ ledger = "server"
  /\ Len(orders) < MaxOrders
  /\ CanSuspend
  /\ Awaits(input) => gateway = "answers"
  /\ LET config == marketDefaults[input.market]
         marketPrice == r.price
         refPrice == refPriceOf(input, marketPrice)
         keys == getCashKeys(input.market)
         estimatedNotional == refPrice * input.quantity
         cashNeeded == estimatedNotional + calcCommission(config, estimatedNotional)
         buy == freezeForBuy(user, keys, cashNeeded)
         pidx == PositionIndex(input.symbol, input.market)
         available == IF pidx = 0 THEN 0 ELSE positions[pidx].availableQuantity
         order == [id |-> nextIds.order, orderNo |-> nextIds.order,
                   symbol |-> input.symbol, market |-> input.market, side |-> input.side,
                   orderType |-> input.order_type, price |-> input.price,
                   quantity |-> input.quantity, filledQuantity |-> 0, status |-> "PENDING"]
         Reject(why) ==
           /\ lastOp' = [op |-> "placeOrder", result |-> why, orderNo |-> 0, price |-> NoPrice]
           /\ UNCHANGED <<user, positions, orders, trades, nextIds, calls, escrow>>
     IN
     IF input.quantity % config.lotSize # 0 THEN Reject("lot_size")
     ELSE IF input.quantity < config.minOrderQuantity THEN Reject("min_quantity")
     ELSE IF ~r.ok THEN Reject("price_unavailable")
     ELSE IF input.order_type = "LIMIT" /\ input.price # NoPrice /\ input.price <= 0
     THEN Reject("limit_price")
     ELSE IF input.side = "BUY" /\ ~buy.ok
     THEN /\ user' = buy.user
          /\ lastOp' = [op |-> "placeOrder", result |-> "insufficient_cash", orderNo |-> 0, price |-> NoPrice]
          /\ UNCHANGED <<positions, orders, trades, nextIds, calls, escrow>>
     ELSE IF input.side = "SELL" /\ (pidx = 0 \/ available < input.quantity)
     THEN Reject("insufficient_position")
     ELSE /\ user' = IF input.side = "BUY" THEN buy.user ELSE user
          /\ nextIds' = [nextIds EXCEPT !.order = @ + 1]
          /\ orders' = <<order>> \o orders
          /\ escrow' = Append(escrow, [frozen |-> IF input.side = "BUY" THEN cashNeeded ELSE 0,
                                       released |-> <<>>,
                                       cash |-> [current |-> user[keys.currentKey],
                                                 frozen |-> user[keys.frozenKey]]])
          /\ calls' = Suspend("execute", order.orderNo)
          /\ lastOp' = [op |-> "placeOrder", result |-> "ok", orderNo |-> order.orderNo, price |-> refPrice]
          /\ UNCHANGED <<positions, trades>>
  /\ UNCHANGED <<ledger, gateway, pushVars, clientVars>>

\* executeOrder up to its await (lines 186-201), as POST /orders/:orderNo/execute calls it
ExecuteOrderCall(orderNo) ==
  /\ ledger = "server"
  /\ LET idx == OrderIndex(orderNo) IN
     IF idx = 0
     THEN /\ lastOp' = [op |-> "executeOrder", result |-> "not_found", orderNo |-> orderNo, price |-> NoPrice]
          /\ UNCHANGED <<serverVars, escrow>>
     ELSE IF orders[idx].status # "PENDING"
     THEN /\ lastOp' = [op |-> "executeOrder", result |-> "not_executed", orderNo |-> orderNo, price |-> NoPrice]
          /\ UNCHANGED <<serverVars, escrow>>
     ELSE /\ CanSuspend
          /\ calls' = Suspend("execute", orderNo)
          /\ lastOp' = [op |-> "executeOrder", result |-> "await", orderNo |-> orderNo, price |-> NoPrice]
          /\ UNCHANGED <<user, positions, orders, trades, nextIds, escrow>>
  /\ UNCHANGED <<ledger, gateway, pushVars, clientVars>>

\* the escrow executeOrder takes to be frozen for a BUY order (lines 243-244)
estimatedFrozenOf(order, config, executionPrice) ==
  LET referencePrice == IF order.orderType = "LIMIT" /\ order.price # NoPrice
                        THEN Max(order.price, executionPrice) ELSE executionPrice
  IN referencePrice * order.quantity + calcCommission(config, referencePrice * order.quantity)


\* executeOrder from its await on (lines 201-300)
ExecuteOrderResume(orderNo, r) ==
  /\ ledger = "server"
  /\ gateway = "answers"
  /\ calls[<<"execute", orderNo>>] > 0
  /\ LET idx == OrderIndex(orderNo)
         order == orders[idx]
         executionPrice == r.price
         config == marketDefaults[order.market]
         orderPrice == IF order.price # NoPrice THEN order.price ELSE executionPrice
         keys == getCashKeys(order.market)
         currentCash == user[keys.currentKey]
         frozenCash == user[keys.frozenKey]
         notional == executionPrice * order.quantity
         commission == calcCommission(config, notional)
         totalCost == notional + commission
         newCash == currentCash - totalCost
         estimatedFrozen == estimatedFrozenOf(order, config, executionPrice)
         releaseAmount == Min(estimatedFrozen, frozenCash)
         newFrozen == Max(frozenCash - releaseAmount, 0)
         ensured == ensurePosition(order.symbol, order.market)
         pidx == PositionIndex(order.symbol, order.market)
         bidx == IF pidx # 0 THEN pidx ELSE Len(ensured)
         oldPos == ensured[bidx]
         newQty == oldPos.quantity + order.quantity
         boughtPos == [oldPos EXCEPT
                         !.quantity = newQty,
                         !.availableQuantity = @ + order.quantity,
                         !.avgCost = IF oldPos.quantity = 0 THEN executionPrice * AvgCostUnit
                                     ELSE newAvgCost(oldPos.avgCost, oldPos.quantity, notional, newQty),
                         !.lastPrice = executionPrice,
                         !.marketValue = newQty * executionPrice]
         trade == [id |-> nextIds.trade, orderId |-> order.id, symbol |-> order.symbol,
                   market |-> order.market, side |-> order.side, price |-> executionPrice,
                   quantity |-> order.quantity, commission |-> commission]
         Return(why) ==
           /\ calls' = Resume("execute", orderNo)
           /\ lastOp' = [op |-> "executeOrder", result |-> why, orderNo |-> order.orderNo,
                         price |-> IF r.ok THEN executionPrice ELSE NoPrice]
           /\ UNCHANGED <<user, positions, orders, trades, nextIds, escrow>>
         Filled ==
           /\ orders' = [orders EXCEPT ![idx].filledQuantity = order.quantity, ![idx].status = "FILLED"]
           /\ trades' = <<trade>> \o trades
           /\ calls' = Resume("execute", orderNo)
           /\ lastOp' = [op |-> "executeOrder", result |-> "executed", orderNo |-> order.orderNo,
                         price |-> executionPrice]
     IN
     IF ~r.ok THEN Return("price_unavailable")
     ELSE IF order.side = "BUY" /\ order.orderType = "LIMIT" /\ orderPrice < executionPrice
     THEN Return("not_executed")
     ELSE IF order.side = "SELL" /\ order.orderType = "LIMIT" /\ orderPrice > executionPrice
     THEN Return("not_executed")
     ELSE IF order.side = "BUY"
     THEN IF newCash < 0 THEN Return("insufficient_cash")
          ELSE /\ user' = [user EXCEPT ![keys.frozenKey] = newFrozen, ![keys.currentKey] = newCash]
               /\ positions' = [ensured EXCEPT ![bidx] = boughtPos]
               /\ nextIds' = [nextIds EXCEPT !.trade = @ + 1,
                                             !.position = IF pidx = 0 THEN @ + 1 ELSE @]
               /\ escrow' = [escrow EXCEPT ![order.id].released = Append(@, frozenCash - newFrozen)]
               /\ Filled
     ELSE IF pidx = 0 \/ positions[pidx].availableQuantity < order.quantity
     THEN Return("insufficient_position")
     ELSE /\ positions' = [positions EXCEPT
                             ![pidx].quantity = @ - order.quantity,
                             ![pidx].availableQuantity = @ - order.quantity,
                             ![pidx].lastPrice = executionPrice,
                             ![pidx].marketValue = (positions[pidx].quantity - order.quantity) * executionPrice]
          /\ user' = [user EXCEPT ![keys.currentKey] = currentCash + (notional - commission)]
          /\ nextIds' = [nextIds EXCEPT !.trade = @ + 1]
          /\ UNCHANGED escrow
          /\ Filled
  /\ UNCHANGED <<ledger, gateway, pushVars, clientVars>>

\* the amount cancelOrder takes off frozen_cash for a BUY order (lines 314-319)
cancelReleaseOf(order, config, marketPrice) ==
  LET refPrice == IF order.orderType = "LIMIT" /\ order.price # NoPrice THEN order.price ELSE marketPrice
      releaseNotional == refPrice * order.quantity
  IN releaseNotional + calcCommission(config, releaseNotional)

\* cancelOrder up to its await (lines 304-312); a SELL order has no await and is cancelled at once
CancelOrderCall(orderNo) ==
  /\ ledger = "server"
  /\ LET idx == OrderIndex(orderNo) IN
     IF idx = 0 \/ (idx # 0 /\ orders[idx].status # "PENDING")
     THEN /\ lastOp' = [op |-> "cancelOrder", result |-> "false", orderNo |-> orderNo, price |-> NoPrice]
          /\ UNCHANGED <<serverVars, escrow>>
     ELSE IF orders[idx].side = "BUY"
     THEN /\ CanSuspend
          /\ calls' = Suspend("cancel", orderNo)
          /\ lastOp' = [op |-> "cancelOrder", result |-> "await", orderNo |-> orderNo, price |-> NoPrice]
          /\ UNCHANGED <<user, positions, orders, trades, nextIds, escrow>>
     ELSE /\ orders' = [orders EXCEPT ![idx].status = "CANCELLED"]
          /\ lastOp' = [op |-> "cancelOrder", result |-> "true", orderNo |-> orderNo, price |-> NoPrice]
          /\ UNCHANGED <<user, positions, trades, nextIds, calls, escrow>>
  /\ UNCHANGED <<ledger, gateway, pushVars, clientVars>>

\* cancelOrder of a BUY order from its await on (lines 312-328)
CancelOrderResume(orderNo, r) ==
  /\ ledger = "server"
  /\ gateway = "answers"
  /\ calls[<<"cancel", orderNo>>] > 0
  /\ LET idx == OrderIndex(orderNo)
         order == orders[idx]
         keys == getCashKeys(order.market)
         frozenCash == user[keys.frozenKey]
         releaseAmount == cancelReleaseOf(order, marketDefaults[order.market], r.price)
         newFrozen == IF r.ok THEN Max(frozenCash - releaseAmount, 0) ELSE frozenCash
     IN
     /\ user' = [user EXCEPT ![keys.frozenKey] = newFrozen]
     /\ escrow' = [escrow EXCEPT ![order.id].released = Append(@, frozenCash - newFrozen)]
     /\ orders' = [orders EXCEPT ![idx].status = "CANCELLED"]
     /\ calls' = Resume("cancel", orderNo)
     /\ lastOp' = [op |-> "cancelOrder", result |-> "true", orderNo |-> order.orderNo, price |-> NoPrice]
     /\ UNCHANGED <<positions, trades, nextIds>>
  /\ UNCHANGED <<ledger, gateway, pushVars, clientVars>>

(* --------------------- client: orderExecutor.ts ------------------------ *)
calculateCommission(price, quantity, market) ==
  LET value == price * quantity IN
  IF market = "US" THEN Max(100, (value * 300) \div 100000)
  ELSE IF market = "HK" THEN Max(500, (value * 50) \div 100000)
  ELSE Max(500, (value * 30) \div 100000)

\* a JavaScript number used as a condition: undefined and 0 are falsy
Truthy(price) == price # NoPrice /\ price # 0

RECURSIVE GCD(_, _)
GCD(a, b) == IF b = 0 THEN a ELSE GCD(b, a % b)

\* avg_cost is a quotient the client never rounds: it is kept as a fraction in lowest terms
Fraction(n, d) == LET g == GCD(n, d) IN [num |-> n \div g, den |-> d \div g]

\* (existingPos.avg_cost * existingPos.quantity + totalValue) / newQuantity, line 337
clientAvgCost(avg_cost, quantity, totalValue, newQuantity) ==
  Fraction(avg_cost.num * quantity + totalValue * avg_cost.den, avg_cost.den * newQuantity)

ClientOrderIndex(list, orderNo) ==
  LET T(o) == o.order_no = orderNo IN FindFrom(list, T, 1)

ClientPositionIndex(list, symbol) ==
  LET T(p) == p.symbol = symbol IN FindFrom(list, T, 1)

\* a copy that carries the available cash of the currency only
syncCurrentCash(usr, balances, currency) ==
  LET keys == getCashKeys(CHOOSE m \in DOMAIN marketToCurrency : marketToCurrency[m] = currency) IN
  [usr EXCEPT ![keys.currentKey] = balances[currency].current_cash]

\* lines 170-179, 396-405, 532-541: the balance of one currency copied into the user fields
syncUser(usr, balances, currency) ==
  LET keys == getCashKeys(CHOOSE m \in DOMAIN marketToCurrency : marketToCurrency[m] = currency) IN
  [usr EXCEPT ![keys.currentKey] = balances[currency].current_cash,
              ![keys.frozenKey] = balances[currency].frozen_cash]

\* a quote source that answers with a made-up quote when the cache has none
getQuoteOrDefault(qs, symbol) ==
  IF qs[symbol] = NoQuote THEN [current_price |-> 4000, timestamp |-> now] ELSE qs[symbol]

\* marketDataService.getQuote (marketData.ts lines 70-72): the cache entry, NoQuote for undefined
getQuote(qs, symbol) == qs[symbol]

\* the amount executePlaceOrder freezes: the price it sizes the escrow with (lines 96-105)
placeOrderPrice(payload) ==
  IF payload.order_type = "MARKET" /\ ~Truthy(payload.price)
  THEN IF getQuote(quotes, payload.symbol) # NoQuote
       THEN getQuote(quotes, payload.symbol).current_price ELSE 0
  ELSE IF Truthy(payload.price) THEN payload.price ELSE 0

\* executePlaceOrder (lines 35-189): the result record
executePlaceOrder(payload, overview, pos, ords, trds) ==
  LET currency == marketToCurrency[payload.market]
      balance == overview.balances_by_currency[currency]
      orderPrice == placeOrderPrice(payload)
      commission == calculateCommission(orderPrice, payload.quantity, payload.market)
      totalCost == orderPrice * payload.quantity + commission
      pidx == ClientPositionIndex(pos, payload.symbol)
      newOrder == [id |-> Len(ords) + 1, order_no |-> Len(ords) + 1, symbol |-> payload.symbol,
                   side |-> payload.side, quantity |-> payload.quantity, price |-> orderPrice,
                   filled_quantity |-> 0, order_type |-> payload.order_type,
                   status |-> "pending", market |-> payload.market]
      newBalances == IF payload.side = "BUY"
                     THEN [overview.balances_by_currency EXCEPT
                             ![currency].current_cash = @ - totalCost,
                             ![currency].frozen_cash = @ + totalCost]
                     ELSE overview.balances_by_currency
      Fail(why) == [overview |-> overview, positions |-> pos, orders |-> ords, trades |-> trds,
                    success |-> FALSE, message |-> why]
  IN
  IF payload.quantity <= 0 THEN Fail("invalid")
  ELSE IF payload.order_type = "LIMIT" /\ (~Truthy(payload.price) \/ payload.price <= 0)
  THEN Fail("limit_price")
  ELSE IF payload.side = "BUY" /\ balance.current_cash < totalCost THEN Fail("insufficient_cash")
  ELSE IF payload.side = "SELL" /\ (pidx = 0 \/ pos[pidx].quantity < payload.quantity)
  THEN Fail("insufficient_position")
  ELSE [overview |-> [overview EXCEPT !.balances_by_currency = newBalances,
                                      !.user = syncUser(@, newBalances, currency)],
        positions |-> pos, orders |-> Append(ords, newOrder), trades |-> trds,
        success |-> TRUE, message |-> "ok"]

\* a check that lets every pending order with a quote fill, LIMIT or not
canFillAtAnyPrice(order, qs) == order.status = "pending" /\ qs[order.symbol] # NoQuote

\* checkOrderCanFill (lines 192-231)
checkOrderCanFill(order, qs) ==
  LET quote == getQuote(qs, order.symbol) IN
  IF order.status # "pending" THEN FALSE
  ELSE IF quote = NoQuote THEN FALSE
  ELSE IF order.order_type = "MARKET" THEN TRUE
  ELSE IF order.side = "BUY" THEN order.price >= quote.current_price
  ELSE order.price <= quote.current_price

\* the escrow executeFillOrder takes to be frozen for a BUY order (lines 317-318)
frozenAmountOf(order, fillPrice) ==
  LET orderPrice == IF Truthy(order.price) THEN order.price ELSE fillPrice
  IN orderPrice * order.quantity + calculateCommission(orderPrice, order.quantity, order.market)

\* positions after a BUY fill (lines 333-372)
positionsAfterBuy(pos, order, fillPrice) ==
  LET totalValue == fillPrice * order.quantity
      pidx == ClientPositionIndex(pos, order.symbol)
      newQuantity == pos[pidx].quantity + order.quantity
      avgCost == clientAvgCost(pos[pidx].avg_cost, pos[pidx].quantity, totalValue, newQuantity)
  IN
  IF pidx # 0
  THEN [k \in 1..Len(pos) |->
          IF pos[k].symbol = order.symbol
          THEN [pos[k] EXCEPT !.quantity = newQuantity, !.avg_cost = avgCost,
                              !.current_price = fillPrice,
                              !.market_value = fillPrice * newQuantity]
          ELSE pos[k]]
  ELSE Append(pos, [id |-> Len(pos) + 1, symbol |-> order.symbol, market |-> order.market,
                    quantity |-> order.quantity, avg_cost |-> Fraction(fillPrice, 1),
                    current_price |-> fillPrice, market_value |-> totalValue])

\* positions after a SELL fill (lines 377-390): decrement, then drop what is not above zero
positionsAfterSell(pos, order, fillPrice) ==
  LET dec == [k \in 1..Len(pos) |->
                IF pos[k].symbol = order.symbol
                THEN [pos[k] EXCEPT !.quantity = @ - order.quantity,
                                    !.market_value = fillPrice * (pos[k].quantity - order.quantity)]
                ELSE pos[k]]
      keep(p) == p.quantity > 0
  IN SelectSeq(dec, keep)

\* executeFillOrder (lines 234-414): the result record
executeFillOrder(orderNo, overview, pos, ords, trds, qs) ==
  LET idx == ClientOrderIndex(ords, orderNo)
      order == ords[idx]
      quote == getQuote(qs, order.symbol)
      fillPrice == quote.current_price
      currency == marketToCurrency[order.market]
      commission == calculateCommission(fillPrice, order.quantity, order.market)
      totalValue == fillPrice * order.quantity
      frozenAmount == frozenAmountOf(order, fillPrice)
      newOrders == [ords EXCEPT ![idx].status = "filled", ![idx].filled_quantity = order.quantity]
      newTrade == [id |-> Len(trds) + 1, order_id |-> order.id, symbol |-> order.symbol,
                   market |-> order.market, side |-> order.side, price |-> fillPrice,
                   quantity |-> order.quantity, commission |-> commission]
      newBalances == IF order.side = "BUY"
                     THEN [overview.balances_by_currency EXCEPT
                             ![currency].frozen_cash = @ - frozenAmount,
                             ![currency].current_cash = (@ + frozenAmount) - (totalValue + commission)]
                     ELSE [overview.balances_by_currency EXCEPT
                             ![currency].current_cash = @ + (totalValue - commission)]
      NotFilled == [overview |-> overview, positions |-> pos, orders |-> ords, trades |-> trds,
                    filled |-> FALSE]
  IN
  IF idx = 0 THEN NotFilled
  ELSE IF order.status # "pending" THEN NotFilled
  ELSE IF ~checkOrderCanFill(order, qs) THEN NotFilled
  ELSE IF quote = NoQuote THEN NotFilled
  ELSE IF dateUTC(quote.timestamp) # dateUTC(now) THEN NotFilled
  ELSE [overview |-> [overview EXCEPT !.balances_by_currency = newBalances,
                                      !.user = syncUser(@, newBalances, currency)],
        positions |-> IF order.side = "BUY" THEN positionsAfterBuy(pos, order, fillPrice)
                      ELSE positionsAfterSell(pos, order, fillPrice),
        orders |-> newOrders, trades |-> Append(trds, newTrade), filled |-> TRUE]

\* a loop that takes the pending orders from the newest to the oldest
RECURSIVE fillBackFrom(_, _, _, _)
fillBackFrom(pendingOrders, k, acc, qs) ==
  IF k > Len(pendingOrders) THEN acc
  ELSE LET result == executeFillOrder(pendingOrders[Len(pendingOrders) + 1 - k].order_no,
                                      acc.overview, acc.positions, acc.orders, acc.trades, qs)
       IN IF result.filled
          THEN fillBackFrom(pendingOrders, k + 1,
                            [overview |-> result.overview, positions |-> result.positions,
                             orders |-> result.orders, trades |-> result.trades,
                             filledCount |-> acc.filledCount + 1], qs)
          ELSE fillBackFrom(pendingOrders, k + 1, acc, qs)

\* checkAndFillOrders (lines 417-466): the loop over pendingOrders from its k-th element on
RECURSIVE fillFrom(_, _, _, _)
fillFrom(pendingOrders, k, acc, qs) ==
  IF k > Len(pendingOrders) THEN acc
  ELSE LET result == executeFillOrder(pendingOrders[k].order_no,
                                      acc.overview, acc.positions, acc.orders, acc.trades, qs)
       IN IF result.filled
          THEN fillFrom(pendingOrders, k + 1,
                        [overview |-> result.overview, positions |-> result.positions,
                         orders |-> result.orders, trades |-> result.trades,
                         filledCount |-> acc.filledCount + 1], qs)
          ELSE fillFrom(pendingOrders, k + 1, acc, qs)

\* a sweep that looks at the oldest pending order only
checkOldestPendingOrder(overview, pos, ords, trds, qs) ==
  LET isPending(o) == o.status = "pending"
      pendingOrders == SelectSeq(ords, isPending)
  IN fillFrom(SubSeq(pendingOrders, 1, IF Len(pendingOrders) > 0 THEN 1 ELSE 0), 1,
              [overview |-> overview, positions |-> pos, orders |-> ords,
               trades |-> trds, filledCount |-> 0], qs)

checkAndFillOrders(overview, pos, ords, trds, qs) ==
  LET isPending(o) == o.status = "pending" IN
  fillFrom(SelectSeq(ords, isPending), 1,
           [overview |-> overview, positions |-> pos, orders |-> ords, trades |-> trds,
            filledCount |-> 0], qs)

\* a cancellation that releases the cost of the order whatever its side
executeCancelReleasing(orderNo, overview, pos, ords, trds) ==
  LET idx == ClientOrderIndex(ords, orderNo)
      order == ords[idx]
      currency == marketToCurrency[order.market]
      orderPrice == IF Truthy(order.price) THEN order.price ELSE 0
      totalCost == orderPrice * order.quantity
                     + calculateCommission(orderPrice, order.quantity, order.market)
      newBalances == [overview.balances_by_currency EXCEPT
                        ![currency].current_cash = @ + totalCost,
                        ![currency].frozen_cash = @ - totalCost]
      Fail(why) == [overview |-> overview, positions |-> pos, orders |-> ords, trades |-> trds,
                    success |-> FALSE, message |-> why]
  IN
  IF idx = 0 THEN Fail("not_found")
  ELSE IF order.status # "pending" THEN Fail("not_cancellable")
  ELSE [overview |-> [overview EXCEPT !.balances_by_currency = newBalances,
                                      !.user = syncUser(@, newBalances, currency)],
        positions |-> pos, orders |-> [ords EXCEPT ![idx].status = "cancelled"],
        trades |-> trds, success |-> TRUE, message |-> "ok"]

\* executeCancelOrder (lines 469-552): the result record
executeCancelOrder(orderNo, overview, pos, ords, trds) ==
  LET idx == ClientOrderIndex(ords, orderNo)
      order == ords[idx]
      currency == marketToCurrency[order.market]
      orderPrice == IF Truthy(order.price) THEN order.price ELSE 0
      totalCost == orderPrice * order.quantity
                     + calculateCommission(orderPrice, order.quantity, order.market)
      newBalances == [overview.balances_by_currency EXCEPT
                        ![currency].current_cash = @ + totalCost,
                        ![currency].frozen_cash = @ - totalCost]
      Fail(why) == [overview |-> overview, positions |-> pos, orders |-> ords, trades |-> trds,
                    success |-> FALSE, message |-> why]
  IN
  IF idx = 0 THEN Fail("not_found")
  ELSE IF order.status # "pending" THEN Fail("not_cancellable")
  ELSE [overview |-> IF order.side = "BUY"
                     THEN [overview EXCEPT !.balances_by_currency = newBalances,
                                           !.user = syncUser(@, newBalances, currency)]
                     ELSE overview,
        positions |-> pos, orders |-> [ords EXCEPT ![idx].status = "cancelled"],
        trades |-> trds, success |-> TRUE, message |-> "ok"]

(* ---------- client: tradingLogic.ts and the WebSocket handler ---------- *)
\* frozen_cash of an overview in the currency of a market
FrozenIn(overview, market) == overview.balances_by_currency[marketToCurrency[market]].frozen_cash

\* current_cash and frozen_cash of an overview in the currency of a market
CashIn(overview, market) ==
  [current |-> overview.balances_by_currency[marketToCurrency[market]].current_cash,
   frozen |-> overview.balances_by_currency[marketToCurrency[market]].frozen_cash]

\* TradingLogic.placeOrder (tradingLogic.ts lines 162-211), while fewer than cap orders exist
PlaceOrderWithin(payload, cap) ==
  /\ ledger = "client"
  /\ Len(trading_orders) < cap
  /\ LET result == executePlaceOrder(payload, trading_overview, trading_positions,
                                     trading_orders, trading_trades)
     IN
     IF ~result.success
     THEN /\ lastOp' = [op |-> "executePlaceOrder", result |-> result.message, orderNo |-> 0, price |-> NoPrice]
          /\ UNCHANGED <<storageVars, escrow>>
     ELSE /\ trading_overview' = result.overview
          /\ trading_orders' = result.orders
          /\ escrow' = Append(escrow, [frozen |-> FrozenIn(result.overview, payload.market)
                                                    - FrozenIn(trading_overview, payload.market),
                                       released |-> <<>>,
                                       cash |-> CashIn(trading_overview, payload.market)])
          /\ lastOp' = [op |-> "executePlaceOrder", result |-> "ok", orderNo |-> Len(result.orders),
                        price |-> placeOrderPrice(payload)]
          /\ UNCHANGED <<trading_positions, trading_trades>>
  /\ twin' = IF twin.on
             THEN TwinOf(executePlaceOrder(payload, twin.overview, twin.positions,
                                           twin.orders, twin.trades))
             ELSE twin
  /\ UNCHANGED <<ledger, serverVars, quotes, now>>

ClientPlaceOrder(payload) == PlaceOrderWithin(payload, MaxOrders)

\* TradingLogic.cancelOrder (tradingLogic.ts lines 216-241)
ClientCancelOrder(orderNo) ==
  /\ ledger = "client"
  /\ LET result == executeCancelOrder(orderNo, trading_overview, trading_positions,
                                      trading_orders, trading_trades)
         market == trading_orders[orderNo].market
     IN
     IF ~result.success
     THEN /\ lastOp' = [op |-> "executeCancelOrder", result |-> result.message, orderNo |-> orderNo, price |-> NoPrice]
          /\ UNCHANGED <<storageVars, escrow>>
     ELSE /\ trading_overview' = result.overview
          /\ trading_orders' = result.orders
          /\ escrow' = [escrow EXCEPT ![orderNo].released =
                          IF trading_orders[orderNo].side = "BUY"
                          THEN Append(@, FrozenIn(trading_overview, market) - FrozenIn(result.overview, market))
                          ELSE @]
          /\ lastOp' = [op |-> "executeCancelOrder", result |-> "ok", orderNo |-> orderNo, price |-> NoPrice]
          /\ UNCHANGED <<trading_positions, trading_trades>>
  /\ twin' = IF twin.on
             THEN TwinOf(executeCancelOrder(orderNo, twin.overview, twin.positions,
                                            twin.orders, twin.trades))
             ELSE twin
  /\ UNCHANGED <<ledger, serverVars, quotes, now>>

\* updateQuotesAndPositions, lines 110-128: the stored positions repriced with the new quote
repriced(pos, symbol, price) ==
  [k \in 1..Len(pos) |->
     IF pos[k].symbol = symbol
     THEN [pos[k] EXCEPT !.current_price = price, !.market_value = price * pos[k].quantity]
     ELSE pos[k]]

\* what each order had released by a sweep: the fall of frozen_cash at its fill
RECURSIVE releasedBySweep(_, _, _, _, _)
releasedBySweep(esc, before, after, qs, k) ==
  IF k > Len(before) THEN esc
  ELSE LET o == before[k]
           fillPrice == qs[o.symbol].current_price
           next == IF o.status = "pending" /\ after[k].status = "filled" /\ o.side = "BUY"
                   THEN [esc EXCEPT ![k].released = Append(@, frozenAmountOf(o, fillPrice))]
                   ELSE esc
       IN releasedBySweep(next, before, after, qs, k + 1)

\* updateQuotesAndPositions (WebSocket handler, lines 88-156) for a batch of one quote.
\* quotes keeps the cache for the traded symbols only: a batch for another symbol
\* leaves it as it is and still runs the sweep over every pending order.
UpdateQuotesAndPositions(symbol, price) ==
  /\ ledger = "client"
  /\ LET qs == IF symbol \in Symbols
               THEN [quotes EXCEPT ![symbol] = [current_price |-> price, timestamp |-> now]]
               ELSE quotes
         updatedPositions == repriced(trading_positions, symbol, price)
         result == checkAndFillOrders(trading_overview, updatedPositions,
                                      trading_orders, trading_trades, qs)
     IN
     /\ quotes' = qs
     /\ IF result.filledCount > 0
        THEN /\ trading_overview' = result.overview
             /\ trading_positions' = result.positions
             /\ trading_orders' = result.orders
             /\ trading_trades' = result.trades
             /\ escrow' = releasedBySweep(escrow, trading_orders, result.orders, qs, 1)
             /\ lastOp' = [op |-> "checkAndFillOrders", result |-> "filled",
                           orderNo |-> result.filledCount, price |-> price]
        ELSE /\ trading_positions' = updatedPositions
             /\ lastOp' = [op |-> "checkAndFillOrders", result |-> "none",
                           orderNo |-> 0, price |-> price]
             /\ UNCHANGED <<trading_overview, trading_orders, trading_trades, escrow>>
     /\ twin' = IF twin.on
                THEN LET twinPositions == repriced(twin.positions, symbol, price)
                         twinResult == checkAndFillOrders(twin.overview, twinPositions,
                                                          twin.orders, twin.trades, qs)
                     IN IF twinResult.filledCount > 0 THEN TwinOf(twinResult)
                        ELSE [twin EXCEPT !.positions = twinPositions]
                ELSE twin
  /\ UNCHANGED <<ledger, serverVars, now>>

\* time passes: Date.now() moves on by more than 30 s
Tick ==
  /\ ledger # "server"
  /\ now < MaxTicks
  /\ now' = now + 1
  /\ lastOp' = [op |-> "tick", result |-> "ok", orderNo |-> 0, price |-> NoPrice]
  /\ UNCHANGED <<ledger, serverVars, storageVars, quotes, escrow, twin>>

Next ==
  \/ \E input \in PlaceOrderInputs, r \in PriceResults : PlaceOrder(input, r)
  \/ \E orderNo \in OrderNos : ExecuteOrderCall(orderNo)
  \/ \E orderNo \in OrderNos, r \in PriceResults : ExecuteOrderResume(orderNo, r)
  \/ \E orderNo \in OrderNos : CancelOrderCall(orderNo)
  \/ \E orderNo \in OrderNos, r \in PriceResults : CancelOrderResume(orderNo, r)
  \/ \E payload \in PlaceOrderInputs : ClientPlaceOrder(payload)
  \/ \E orderNo \in OrderNos : ClientCancelOrder(orderNo)
  \/ \E symbol \in QuoteSymbols, price \in Prices : UpdateQuotesAndPositions(symbol, price)
  \/ Tick

Spec == Init /\ [][Next]_vars

(* ------ the client ledger with room for a BUY and two SELL orders ------ *)
\* MARKET orders and LIMIT SELL orders of one quantity in one market
SellInputs ==
  { input \in PlaceOrderInputs :
      /\ input.market = "US" /\ input.quantity = 150
      /\ input.order_type = "MARKET" \/ input.side = "SELL" }

ClientPlaceSellOrder(payload) == PlaceOrderWithin(payload, MaxSellOrders)

DoubleSellInit == ledger = "client" /\ InitialState /\ twin = NoTwin

DoubleSellNext ==
  \/ \E payload \in SellInputs : ClientPlaceSellOrder(payload)
  \/ \E orderNo \in 1..MaxSellOrders : ClientCancelOrder(orderNo)
  \/ \E symbol \in QuoteSymbols, price \in Prices : UpdateQuotesAndPositions(symbol, price)
  \/ Tick

DoubleSellSpec == DoubleSellInit /\ [][DoubleSellNext]_vars

(* ------- the earlier copy of the order executor (part_008) ------------- *)
\* String.prototype.toLowerCase on the sides and order types
toLowerCase ==
  [BUY |-> "buy", SELL |-> "sell", MARKET |-> "market", LIMIT |-> "limit",
   buy |-> "buy", sell |-> "sell", market |-> "market", limit |-> "limit"]

\* OrderPayload of the earlier copy: sides and order types in lower case, price a number
LegacyInputs ==
  { [symbol |-> s, market |-> m, side |-> sd, order_type |-> t, price |-> p, quantity |-> q] :
      s \in Symbols, m \in Markets, sd \in {"buy", "sell"}, t \in {"market", "limit"},
      p \in {0, 5000}, q \in Quantities }

\* executePlaceOrder of the earlier copy (part_008 lines 136-257)
legacyExecutePlaceOrder(payload, overview, pos, ords, trds) ==
  LET currency == marketToCurrency[payload.market]
      balance == overview.balances_by_currency[currency]
      commission == calculateCommission(payload.price, payload.quantity, payload.market)
      totalCost == payload.price * payload.quantity + commission
      pidx == ClientPositionIndex(pos, payload.symbol)
      newOrder == [id |-> Len(ords) + 1, order_no |-> Len(ords) + 1, symbol |-> payload.symbol,
                   side |-> payload.side, quantity |-> payload.quantity, price |-> payload.price,
                   filled_quantity |-> 0, order_type |-> payload.order_type,
                   status |-> "pending", market |-> payload.market]
      newBalances == IF payload.side = "buy"
                     THEN [overview.balances_by_currency EXCEPT
                             ![currency].current_cash = @ - totalCost,
                             ![currency].frozen_cash = @ + totalCost]
                     ELSE overview.balances_by_currency
      Fail(why) == [overview |-> overview, positions |-> pos, orders |-> ords, trades |-> trds,
                    success |-> FALSE, message |-> why]
  IN
  IF payload.quantity <= 0 \/ payload.price <= 0 THEN Fail("invalid")
  ELSE IF payload.side = "buy" /\ balance.current_cash < totalCost THEN Fail("insufficient_cash")
  ELSE IF payload.side = "sell" /\ (pidx = 0 \/ pos[pidx].quantity < payload.quantity)
  THEN Fail("insufficient_position")
  ELSE [overview |-> [overview EXCEPT !.balances_by_currency = newBalances,
                                      !.user = syncUser(@, newBalances, currency)],
        positions |-> pos, orders |-> Append(ords, newOrder), trades |-> trds,
        success |-> TRUE, message |-> "ok"]

\* checkOrderCanFill of the earlier copy (part_008 lines 262-300)
legacyCheckOrderCanFill(order, qs) ==
  LET quote == getQuote(qs, order.symbol) IN
  IF order.status # "pending" THEN FALSE
  ELSE IF quote = NoQuote THEN FALSE
  ELSE IF dateUTC(quote.timestamp) # dateUTC(now) THEN FALSE
  ELSE IF toLowerCase[order.order_type] = "market" THEN TRUE
  ELSE IF toLowerCase[order.side] = "buy" THEN order.price >= quote.current_price
  ELSE order.price <= quote.current_price

\* the price a fill is booked at in the earlier copy (part_008 line 340)
legacyFillPrice(order, quote) ==
  IF toLowerCase[order.order_type] = "market" THEN quote.current_price ELSE order.price

\* executeFillOrder of the earlier copy (part_008 lines 303-446)
legacyExecuteFillOrder(orderNo, overview, pos, ords, trds, qs) ==
  LET idx == ClientOrderIndex(ords, orderNo)
      order == ords[idx]
      quote == getQuote(qs, order.symbol)
      fillPrice == legacyFillPrice(order, quote)
      currency == marketToCurrency[order.market]
      commission == calculateCommission(fillPrice, order.quantity, order.market)
      totalValue == fillPrice * order.quantity
      newOrders == [ords EXCEPT ![idx].status = "filled", ![idx].filled_quantity = order.quantity]
      newTrade == [id |-> Len(trds) + 1, order_no |-> orderNo, symbol |-> order.symbol,
                   side |-> order.side, quantity |-> order.quantity, price |-> fillPrice,
                   commission |-> commission, market |-> order.market]
      newBalances == IF toLowerCase[order.side] = "buy"
                     THEN [overview.balances_by_currency EXCEPT
                             ![currency].frozen_cash = @ - (totalValue + commission)]
                     ELSE [overview.balances_by_currency EXCEPT
                             ![currency].current_cash = @ + (totalValue - commission)]
      NotFilled == [overview |-> overview, positions |-> pos, orders |-> ords, trades |-> trds,
                    filled |-> FALSE]
  IN
  IF idx = 0 THEN NotFilled
  ELSE IF order.status # "pending" THEN NotFilled
  ELSE IF ~legacyCheckOrderCanFill(order, qs) THEN NotFilled
  ELSE IF quote = NoQuote THEN NotFilled
  ELSE IF dateUTC(quote.timestamp) # dateUTC(now) THEN NotFilled
  ELSE [overview |-> [overview EXCEPT !.balances_by_currency = newBalances,
                                      !.user = syncUser(@, newBalances, currency)],
        positions |-> IF toLowerCase[order.side] = "buy"
                      THEN positionsAfterBuy(pos, order, fillPrice)
                      ELSE positionsAfterSell(pos, order, fillPrice),
        orders |-> newOrders, trades |-> Append(trds, newTrade), filled |-> TRUE]

\* checkAndFillOrders of the earlier copy (part_008 lines 449-496), from the k-th pending order on
RECURSIVE legacyFillFrom(_, _, _, _)
legacyFillFrom(pendingOrders, k, acc, qs) ==
  IF k > Len(pendingOrders) THEN acc
  ELSE LET result == legacyExecuteFillOrder(pendingOrders[k].order_no,
                                            acc.overview, acc.positions, acc.orders, acc.trades, qs)
       IN IF result.filled
          THEN legacyFillFrom(pendingOrders, k + 1,
                              [overview |-> result.overview, positions |-> result.positions,
                               orders |-> result.orders, trades |-> result.trades,
                               filledCount |-> acc.filledCount + 1], qs)
          ELSE legacyFillFrom(pendingOrders, k + 1, acc, qs)

legacyCheckAndFillOrders(overview, pos, ords, trds, qs) ==
  LET isPending(o) == o.status = "pending" IN
  legacyFillFrom(SelectSeq(ords, isPending), 1,
                 [overview |-> overview, positions |-> pos, orders |-> ords, trades |-> trds,
                  filledCount |-> 0], qs)

\* executeCancelOrder of the earlier copy (part_008 lines 499-581)
legacyExecuteCancelOrder(orderNo, overview, pos, ords, trds) ==
  LET idx == ClientOrderIndex(ords, orderNo)
      order == ords[idx]
      currency == marketToCurrency[order.market]
      totalCost == order.price * order.quantity
                     + calculateCommission(order.price, order.quantity, order.market)
      newBalances == [overview.balances_by_currency EXCEPT
                        ![currency].current_cash = @ + totalCost,
                        ![currency].frozen_cash = @ - totalCost]
      Fail(why) == [overview |-> overview, positions |-> pos, orders |-> ords, trades |-> trds,
                    success |-> FALSE, message |-> why]
  IN
  IF idx = 0 THEN Fail("not_found")
  ELSE IF order.status # "pending" THEN Fail("not_cancellable")
  ELSE [overview |-> IF order.side = "buy"
                     THEN [overview EXCEPT !.balances_by_currency = newBalances,
                                           !.user = syncUser(@, newBalances, currency)]
                     ELSE overview,
        positions |-> pos, orders |-> [ords EXCEPT ![idx].status = "cancelled"],
        trades |-> trds, success |-> TRUE, message |-> "ok"]

\* an order placed through the earlier copy, its result stored as TradingLogic stores it
LegacyPlaceOrder(payload) ==
  /\ ledger = "legacy"
  /\ Len(trading_orders) < MaxOrders
  /\ LET result == legacyExecutePlaceOrder(payload, trading_overview, trading_positions,
                                           trading_orders, trading_trades)
     IN
     IF ~result.success
     THEN /\ lastOp' = [op |-> "executePlaceOrder", result |-> result.message, orderNo |-> 0, price |-> NoPrice]
          /\ UNCHANGED <<storageVars, escrow>>
     ELSE /\ trading_overview' = result.overview
          /\ trading_orders' = result.orders
          /\ escrow' = Append(escrow, [frozen |-> FrozenIn(result.overview, payload.market)
                                                    - FrozenIn(trading_overview, payload.market),
                                       released |-> <<>>,
                                       cash |-> CashIn(trading_overview, payload.market)])
          /\ lastOp' = [op |-> "executePlaceOrder", result |-> "ok", orderNo |-> Len(result.orders),
                        price |-> payload.price]
          /\ UNCHANGED <<trading_positions, trading_trades>>
  /\ UNCHANGED <<ledger, serverVars, quotes, now, twin>>

\* an order cancelled through the earlier copy
LegacyCancelOrder(orderNo) ==
  /\ ledger = "legacy"
  /\ LET result == legacyExecuteCancelOrder(orderNo, trading_overview, trading_positions,
                                            trading_orders, trading_trades)
         market == trading_orders[orderNo].market
     IN
     IF ~result.success
     THEN /\ lastOp' = [op |-> "executeCancelOrder", result |-> result.message, orderNo |-> orderNo, price |-> NoPrice]
          /\ UNCHANGED <<storageVars, escrow>>
     ELSE /\ trading_overview' = result.overview
          /\ trading_orders' = result.orders
          /\ escrow' = [escrow EXCEPT ![orderNo].released =
                          IF trading_orders[orderNo].side = "buy"
                          THEN Append(@, FrozenIn(trading_overview, market) - FrozenIn(result.overview, market))
                          ELSE @]
          /\ lastOp' = [op |-> "executeCancelOrder", result |-> "ok", orderNo |-> orderNo, price |-> NoPrice]
          /\ UNCHANGED <<trading_positions, trading_trades>>
  /\ UNCHANGED <<ledger, serverVars, quotes, now, twin>>

\* what each order had released by a sweep of the earlier copy
RECURSIVE legacyReleasedBySweep(_, _, _, _, _)
legacyReleasedBySweep(esc, before, after, qs, k) ==
  IF k > Len(before) THEN esc
  ELSE LET o == before[k]
           fillPrice == legacyFillPrice(o, qs[o.symbol])
           next == IF o.status = "pending" /\ after[k].status = "filled" /\ o.side = "buy"
                   THEN [esc EXCEPT ![k].released =
                           Append(@, fillPrice * o.quantity
                                       + calculateCommission(fillPrice, o.quantity, o.market))]
                   ELSE esc
       IN legacyReleasedBySweep(next, before, after, qs, k + 1)

\* a batch of one quote arrives and the earlier copy sweeps the pending orders
LegacyUpdateQuotes(symbol, price) ==
  /\ ledger = "legacy"
  /\ LET qs == IF symbol \in Symbols
               THEN [quotes EXCEPT ![symbol] = [current_price |-> price, timestamp |-> now]]
               ELSE quotes
         updatedPositions == repriced(trading_positions, symbol, price)
         result == legacyCheckAndFillOrders(trading_overview, updatedPositions,
                                            trading_orders, trading_trades, qs)
     IN
     /\ quotes' = qs
     /\ IF result.filledCount > 0
        THEN /\ trading_overview' = result.overview
             /\ trading_positions' = result.positions
             /\ trading_orders' = result.orders
             /\ trading_trades' = result.trades
             /\ escrow' = legacyReleasedBySweep(escrow, trading_orders, result.orders, qs, 1)
             /\ lastOp' = [op |-> "checkAndFillOrders", result |-> "filled",
                           orderNo |-> result.filledCount, price |-> price]
        ELSE /\ trading_positions' = updatedPositions
             /\ lastOp' = [op |-> "checkAndFillOrders", result |-> "none",
                           orderNo |-> 0, price |-> price]
             /\ UNCHANGED <<trading_overview, trading_orders, trading_trades, escrow>>
  /\ UNCHANGED <<ledger, serverVars, now, twin>>

LegacyInit == ledger = "legacy" /\ InitialState /\ twin = NoTwin

LegacyNext ==
  \/ \E payload \in LegacyInputs : LegacyPlaceOrder(payload)
  \/ \E orderNo \in OrderNos : LegacyCancelOrder(orderNo)
  \/ \E symbol \in QuoteSymbols, price \in Prices : LegacyUpdateQuotes(symbol, price)
  \/ Tick

LegacySpec == LegacyInit /\ [][LegacyNext]_vars

(* ------------------- the two ledgers seen alike ------------------------ *)
MarketOf(currency) == CHOOSE m \in DOMAIN marketToCurrency : marketToCurrency[m] = currency

CurrentCash(currency) ==
  IF ledger = "server" THEN user[getCashKeys(MarketOf(currency)).currentKey]
  ELSE trading_overview.balances_by_currency[currency].current_cash

FrozenCash(currency) ==
  IF ledger = "server" THEN user[getCashKeys(MarketOf(currency)).frozenKey]
  ELSE trading_overview.balances_by_currency[currency].frozen_cash

\* the orders in one shape for both ledgers, statuses in the server's spelling
StatusName == [pending |-> "PENDING", filled |-> "FILLED", cancelled |-> "CANCELLED"]
SideName == [BUY |-> "BUY", SELL |-> "SELL", buy |-> "BUY", sell |-> "SELL"]
TypeName == [MARKET |-> "MARKET", LIMIT |-> "LIMIT", market |-> "MARKET", limit |-> "LIMIT"]
OrderView ==
  IF ledger = "server"
  THEN {[no |-> o.orderNo, id |-> o.id, symbol |-> o.symbol, side |-> o.side, type |-> o.orderType,
         price |-> o.price, market |-> o.market, quantity |-> o.quantity,
         filled |-> o.filledQuantity, status |-> o.status] :
          o \in {orders[k] : k \in 1..Len(orders)}}
  ELSE {[no |-> o.order_no, id |-> o.id, symbol |-> o.symbol, side |-> SideName[o.side],
         type |-> TypeName[o.order_type],
         price |-> o.price, market |-> o.market, quantity |-> o.quantity,
         filled |-> o.filled_quantity, status |-> StatusName[o.status]] :
          o \in {trading_orders[k] : k \in 1..Len(trading_orders)}}

\* the trade log, and the order a trade belongs to
TradeLog == IF ledger = "server" THEN trades ELSE trading_trades
TradeOrderId(t) == IF ledger = "server" THEN t.orderId ELSE t.order_id
TradesOf(id) == Cardinality({k \in 1..Len(TradeLog) : TradeOrderId(TradeLog[k]) = id})

\* the cash the trades of one currency have moved, from the k-th trade of the log on
RECURSIVE TradeFlow(_, _)
TradeFlow(currency, k) ==
  IF k > Len(TradeLog) THEN 0
  ELSE LET t == TradeLog[k]
           flow == IF marketToCurrency[t.market] # currency THEN 0
                   ELSE IF t.side = "BUY" THEN 0 - (t.price * t.quantity + t.commission)
                   ELSE t.price * t.quantity - t.commission
       IN flow + TradeFlow(currency, k + 1)

\* balances, positions, orders, trades and id counters are what they were
LedgerUnchanged == UNCHANGED <<user, positions, orders, trades, nextIds, storageVars>>

\* the step was a placement, and what it answered
Placed(result) == lastOp'.op \in {"placeOrder", "executePlaceOrder"} /\ lastOp'.result = result

\* commission of a notional of refPrice * quantity, as the ledger in use charges it
CommissionOf(refPrice, quantity, market) ==
  IF ledger = "server" THEN calcCommission(marketDefaults[market], refPrice * quantity)
  ELSE calculateCommission(refPrice, quantity, market)

(* ------------------------------ claims --------------------------------- *)
\* C1: money conservation.  In every reachable state and for each currency,
\* current_cash + frozen_cash = initial_capital - sum over BUY trades of
\* (notional + commission) + sum over SELL trades of (notional - commission);
\* so placement and cancellation, which add no trade, leave the sum alone.
C1_MoneyConservation ==
  \A c \in Currencies : CurrentCash(c) + FrozenCash(c) = initialCapital[c] + TradeFlow(c, 1)

\* a placed BUY order, not yet filled, whose escrow sits in frozen_cash
C1_Placed ==
  \E o \in OrderView : o.side = "BUY" /\ o.status = "PENDING" /\ FrozenCash(marketToCurrency[o.market]) > 0

\* C2: escrow symmetry.  What the fill or the cancellation of a BUY order takes
\* off frozen_cash is exactly what its placement added, whatever the quotes were.
C2_EscrowSymmetry ==
  \A k \in 1..Len(escrow) : escrow[k].released # <<>> => escrow[k].released[1] = escrow[k].frozen

\* a BUY order whose escrow has been released
C2_Released == \E k \in 1..Len(escrow) : escrow[k].frozen > 0 /\ escrow[k].released # <<>>

\* C3: order status is monotonic.  An order that is FILLED or CANCELLED keeps its
\* status and its filled quantity in every later step.
C3_StatusMonotonic ==
  [][\A o \in OrderView : o.status # "PENDING" => o \in OrderView']_vars

\* an order has reached a terminal status
C3_Terminal == \E o \in OrderView : o.status # "PENDING"

\* C4: a fill and a cancellation of one order never both succeed.  executeOrder does
\* not answer executed for an order already CANCELLED, cancelOrder does not answer
\* true for an order already FILLED, and no order is CANCELLED with a Trade for it.
C4_FillXorCancel ==
  [][/\ lastOp'.op = "executeOrder" /\ lastOp'.result = "executed"
        => ~\E o \in OrderView : o.no = lastOp'.orderNo /\ o.status = "CANCELLED"
     /\ lastOp'.op = "cancelOrder" /\ lastOp'.result = "true"
        => ~\E o \in OrderView : o.no = lastOp'.orderNo /\ o.status = "FILLED"
     /\ \A o \in OrderView' : o.status = "CANCELLED" => TradesOf(o.id)' = 0]_vars

\* executeOrder and cancelOrder of one order are suspended at their price fetches together
C4_BothInFlight ==
  \E orderNo \in OrderNos : calls[<<"execute", orderNo>>] > 0 /\ calls[<<"cancel", orderNo>>] > 0

\* C5: exactly one Trade per fill.  The trade log holds one Trade for each FILLED
\* order and none for an order that is PENDING or CANCELLED.
C5_OneTradePerFill ==
  \A o \in OrderView : TradesOf(o.id) = IF o.status = "FILLED" THEN 1 ELSE 0

\* two executeOrder invocations of one order are suspended together
C5_TwoExecutions == \E orderNo \in OrderNos : calls[<<"execute", orderNo>>] >= 2

\* C6: current_cash of every currency is never negative.
C6_CurrentCashNonNegative == \A c \in Currencies : CurrentCash(c) >= 0

\* a BUY order has been filled above the price that sized its escrow
C6_FilledAboveEscrow ==
  \E o \in OrderView, k \in 1..Len(TradeLog) :
     /\ o.side = "BUY" /\ o.status = "FILLED" /\ TradeOrderId(TradeLog[k]) = o.id
     /\ TradeLog[k].price * o.quantity > escrow[o.id].frozen

\* C7: frozen_cash of every currency is never negative.
C7_FrozenCashNonNegative == \A c \in Currencies : FrozenCash(c) >= 0

\* a BUY order has been cancelled
C7_BuyCancelled == \E o \in OrderView : o.side = "BUY" /\ o.status = "CANCELLED"

\* C8: a successful BUY placement takes needed = ref_price * quantity +
\* commission(ref_price * quantity) off current_cash and adds it to frozen_cash,
\* in the one step that records the order.
C8_PlacementMovesCash ==
  [][Placed("ok") =>
       \A o \in OrderView', c \in Currencies :
          o.no = lastOp'.orderNo /\ o.side = "BUY" /\ c = marketToCurrency[o.market] =>
            LET needed == lastOp'.price * o.quantity
                            + CommissionOf(lastOp'.price, o.quantity, o.market)
            IN /\ CurrentCash(c)' = CurrentCash(c) - needed
               /\ FrozenCash(c)' = FrozenCash(c) + needed]_vars

\* a BUY placement has just succeeded
C8_BuyPlaced ==
  /\ lastOp.op \in {"placeOrder", "executePlaceOrder"} /\ lastOp.result = "ok"
  /\ \E o \in OrderView : o.no = lastOp.orderNo /\ o.side = "BUY"

\* C9: lot-size enforcement.  A placement whose quantity is not a multiple of the
\* market's lot size, or is below its minimum order quantity, records no order;
\* and a placement rejected for its quantity changes nothing.
C9_LotSize ==
  [][/\ \A o \in OrderView' : /\ o.quantity % marketDefaults[o.market].lotSize = 0
                              /\ o.quantity >= marketDefaults[o.market].minOrderQuantity
     /\ Placed("lot_size") \/ Placed("min_quantity") => LedgerUnchanged]_vars

\* a placement has just been rejected for its quantity
C9_QuantityRejected ==
  lastOp.op \in {"placeOrder", "executePlaceOrder"} /\ lastOp.result \in {"lot_size", "min_quantity"}

\* C10: a placement rejected for insufficient funds or for insufficient position
\* leaves balances, positions, orders, trades and id counters as they were.
C10_RejectedPlacementChangesNothing ==
  [][Placed("insufficient_cash") \/ Placed("insufficient_position") => LedgerUnchanged]_vars

\* a BUY has just been rejected for insufficient funds by a ledger that holds orders
C10_Rejected ==
  /\ lastOp.op \in {"placeOrder", "executePlaceOrder"}
  /\ lastOp.result = "insufficient_cash"
  /\ OrderView # {}

\* the step was a cancellation that has answered (not one suspended at its price fetch)
Cancelled(result) == lastOp'.op \in {"cancelOrder", "executeCancelOrder"} /\ lastOp'.result = result

\* C11: cancel on a terminal order.  A cancellation that answers for an order which
\* is FILLED, CANCELLED or missing when it answers fails and leaves balances,
\* positions, orders and trades unchanged; so no escrow is released twice.
C11_CancelOnTerminal ==
  [][(Cancelled("true") \/ Cancelled("ok") \/ Cancelled("false")
        \/ Cancelled("not_found") \/ Cancelled("not_cancellable"))
      /\ ~(\E o \in OrderView : o.no = lastOp'.orderNo /\ o.status = "PENDING")
     => /\ ~(Cancelled("true") \/ Cancelled("ok"))
        /\ LedgerUnchanged]_vars

\* a cancellation has just failed on an order that was already FILLED or CANCELLED
C11_CancelRefused ==
  /\ lastOp.op \in {"cancelOrder", "executeCancelOrder"}
  /\ lastOp.result \in {"false", "not_cancellable"}
  /\ \E o \in OrderView : o.no = lastOp.orderNo /\ o.status # "PENDING"

\* the orders that become FILLED in the step, as they are after it
FilledInStep ==
  {o \in OrderView' : o.status = "FILLED" /\ \E b \in OrderView : b.no = o.no /\ b.status # "FILLED"}

\* C12: staleness gate.  No order goes to FILLED in a step where the quote used
\* for it is older than the staleness limit of 30 seconds, i.e. was cached one
\* tick or more before the step.  (The server fetches its price within the fill
\* and gets no asOf with it; the cached quotes of the client carry a timestamp.)
C12_StalenessGate ==
  [][ledger = "client" => \A o \in FilledInStep : now' - quotes'[o.symbol].timestamp = 0]_vars

\* an order is PENDING while the cached quote of its symbol is older than the limit
C12_StaleQuotePending ==
  /\ ledger = "client"
  /\ \E o \in OrderView : /\ o.status = "PENDING"
                          /\ quotes[o.symbol] # NoQuote
                          /\ now - quotes[o.symbol].timestamp > 0

\* the quote a fill attempt of the step reads for an order: the price the server's
\* fetch answered, the cache entry of the order's symbol on the client
QuoteUsed(o) == IF ledger = "server" THEN lastOp'.price ELSE quotes'[o.symbol].current_price

\* limit_price >= p for BUY, limit_price <= p for SELL
Eligible(o, p) == IF o.side = "BUY" THEN o.price >= p ELSE o.price <= p

NewTrades ==
  {t \in {TradeLog'[k] : k \in 1..Len(TradeLog')} : \A k \in 1..Len(TradeLog) : TradeLog[k].id # t.id}

\* C14: fill price.  Every trade a step records, for a MARKET or a LIMIT order,
\* has the price of the quote that is current in that step (the price the
\* server's fetch answered, the cache entry of the symbol on the client), so a
\* LIMIT BUY trades at or below its limit and a LIMIT SELL at or above it.
C14_FillAtQuote ==
  [][/\ \A t \in NewTrades : t.price = QuoteUsed(t)
     /\ \A o \in FilledInStep : o.type = "LIMIT" =>
          \A t \in NewTrades : SideName[t.side] = o.side /\ t.quantity = o.quantity
                               /\ t.market = o.market /\ Len(TradeLog') = Len(TradeLog) + 1
             => IF o.side = "BUY" THEN t.price <= o.price ELSE t.price >= o.price]_vars

\* a LIMIT order has been filled while the quote was strictly better than its limit
C14_LimitFilledBelowLimit ==
  \E o \in OrderView : /\ o.type = "LIMIT" /\ o.status = "FILLED" /\ o.side = "BUY"
                       /\ lastOp.op \in {"executeOrder", "checkAndFillOrders"}
                       /\ lastOp.price # NoPrice /\ lastOp.price < o.price

\* a placement step that had no quote for its symbol: the server's fetch gave no
\* price, the client's cache held no entry when the order was placed
PlacedWithoutQuote(symbol) ==
  IF ledger = "server"
  THEN lastOp'.op = "placeOrder" /\ lastOp'.price = NoPrice
  ELSE lastOp'.op = "executePlaceOrder" /\ quotes[symbol] = NoQuote

\* C15: a placement made while no quote can be obtained for the symbol fails:
\* no order is created and no cash is frozen, whatever the side and order type.
C15_NoQuoteNoOrder ==
  [][\A symbol \in Symbols : PlacedWithoutQuote(symbol)
       => /\ Cardinality(OrderView') = Cardinality(OrderView)
          /\ \A c \in Currencies : FrozenCash(c)' = FrozenCash(c)]_vars

\* an order stands that was placed while its symbol had no quote
C15_OrderWithoutQuote ==
  /\ lastOp.op \in {"placeOrder", "executePlaceOrder"} /\ lastOp.result = "ok"
  /\ ledger = "client" /\ \A symbol \in Symbols : quotes[symbol] = NoQuote
  /\ \E o \in OrderView : o.no = lastOp.orderNo /\ o.status = "PENDING"

\* a fill attempt of the step found no quote: a resumed executeOrder whose fetch
\* failed, a client sweep while no pending order's symbol has a cache entry
FillAttemptWithoutQuote ==
  IF ledger = "server"
  THEN /\ lastOp'.op = "executeOrder" /\ lastOp'.price = NoPrice
       /\ calls'[<<"execute", lastOp'.orderNo>>] < calls[<<"execute", lastOp'.orderNo>>]
       /\ \E o \in OrderView : o.no = lastOp'.orderNo /\ o.status = "PENDING"
  ELSE /\ lastOp'.op = "checkAndFillOrders"
       /\ \E o \in OrderView : o.status = "PENDING"
       /\ \A o \in OrderView : o.status = "PENDING" => quotes'[o.symbol] = NoQuote

\* C16: a fill attempt on a PENDING order whose quote is unavailable is a
\* deferral: the order stays PENDING, and balances, positions, trades and every
\* other order are what they were.
C16_UnavailableQuoteDefers ==
  [][FillAttemptWithoutQuote
       => /\ LedgerUnchanged
          /\ \A o \in OrderView : o.status = "PENDING" => o \in OrderView']_vars

\* a fill attempt has found no quote and its order is still PENDING
C16_Deferred ==
  /\ \E o \in OrderView : o.status = "PENDING"
  /\ \/ ledger = "server" /\ lastOp.op = "executeOrder" /\ lastOp.result = "price_unavailable"
     \/ /\ ledger = "client" /\ lastOp.op = "checkAndFillOrders"
        /\ \A symbol \in Symbols : quotes[symbol] = NoQuote

Abs(n) == IF n < 0 THEN 0 - n ELSE n

\* the position a fill of trade t works on, in a list of positions: the server
\* finds it by symbol and market, the client by symbol; 0 when there is none
HeldIndex(pos, t) ==
  IF ledger = "server"
  THEN LET T(p) == p.symbol = t.symbol /\ p.market = t.market IN FindFrom(pos, T, 1)
  ELSE ClientPositionIndex(pos, t.symbol)

\* c' is (c * Q + p * q) / (Q + q) on the server, to the 6 decimals avgCost is kept with
ServerRecurrence(c, Q, p, q, cNew) ==
  LET A == (cNew \div AvgCostUnit) * (Q + q) - (c \div AvgCostUnit) * Q - p * q
      B == (cNew % AvgCostUnit) * (Q + q) - (c % AvgCostUnit) * Q
  IN Abs(A) <= 1000 /\ 2 * Abs(AvgCostUnit * A + B) <= Q + q

\* c' is exactly (c * Q + p * q) / (Q + q) on the client
ClientRecurrence(c, Q, p, q, cNew) ==
  cNew.num * (c.den * (Q + q)) = (c.num * Q + p * q * c.den) * cNew.den

\* C17: avg-cost recurrence.  A step that records one BUY trade of q shares at
\* price p on a position (Q, c) leaves it with quantity Q + q and avg_cost
\* (c*Q + p*q)/(Q + q), p being the price of the trade; with no position before
\* (or an emptied one) it leaves (q, p).
C17_AvgCostRecurrence ==
  [][\A t \in NewTrades : Cardinality(NewTrades) = 1 /\ SideName[t.side] = "BUY" =>
       IF ledger = "server"
       THEN LET i == HeldIndex(positions, t)
                j == HeldIndex(positions', t)
            IN /\ j # 0
               /\ IF i = 0 \/ positions[i].quantity = 0
                  THEN /\ positions'[j].quantity = t.quantity
                       /\ positions'[j].avgCost = t.price * AvgCostUnit
                  ELSE /\ positions'[j].quantity = positions[i].quantity + t.quantity
                       /\ ServerRecurrence(positions[i].avgCost, positions[i].quantity,
                                           t.price, t.quantity, positions'[j].avgCost)
       ELSE LET i == HeldIndex(trading_positions, t)
                j == HeldIndex(trading_positions', t)
            IN /\ j # 0
               /\ IF i = 0
                  THEN /\ trading_positions'[j].quantity = t.quantity
                       /\ trading_positions'[j].avg_cost = Fraction(t.price, 1)
                  ELSE /\ trading_positions'[j].quantity = trading_positions[i].quantity + t.quantity
                       /\ ClientRecurrence(trading_positions[i].avg_cost, trading_positions[i].quantity,
                                           t.price, t.quantity, trading_positions'[j].avg_cost)]_vars

\* a position has been bought in two fills at different prices
C17_BoughtTwice ==
  /\ Len(TradeLog) = 2
  /\ \A k \in 1..2 : SideName[TradeLog[k].side] = "BUY"
  /\ TradeLog[1].price # TradeLog[2].price
  /\ HeldIndex(IF ledger = "server" THEN positions ELSE trading_positions, TradeLog[1])
       = HeldIndex(IF ledger = "server" THEN positions ELSE trading_positions, TradeLog[2])

\* the quantities of the position records the ledger holds
HeldQuantities ==
  IF ledger = "server" THEN {positions[k].quantity : k \in 1..Len(positions)}
  ELSE {trading_positions[k].quantity : k \in 1..Len(trading_positions)}

\* C18: no zero-quantity position persists: every position record of every
\* reachable state has quantity > 0 (a SELL fill that empties a position removes it).
C18_NoEmptyPosition == \A quantity \in HeldQuantities : quantity > 0

\* a SELL fill has sold all the shares a BUY fill had bought
C18_SoldOut ==
  /\ Len(TradeLog) = 2
  /\ \E k \in 1..2 : SideName[TradeLog[k].side] = "BUY"
  /\ \E k \in 1..2 : SideName[TradeLog[k].side] = "SELL"
  /\ TradeLog[1].quantity = TradeLog[2].quantity
  /\ TradeLog[1].market = TradeLog[2].market

\* the shares of (symbol, market) the position records hold, from the k-th record on
RECURSIVE HeldFrom(_, _, _, _)
HeldFrom(pos, symbol, market, k) ==
  IF k > Len(pos) THEN 0
  ELSE (IF pos[k].symbol = symbol /\ pos[k].market = market THEN pos[k].quantity ELSE 0)
         + HeldFrom(pos, symbol, market, k + 1)

Held(symbol, market) ==
  HeldFrom(IF ledger = "server" THEN positions ELSE trading_positions, symbol, market, 1)

\* the shares of (symbol, market) bought less those sold, from the k-th trade of the log on
RECURSIVE TradedFrom(_, _, _)
TradedFrom(symbol, market, k) ==
  IF k > Len(TradeLog) THEN 0
  ELSE LET t == TradeLog[k] IN
       (IF t.symbol # symbol \/ t.market # market THEN 0
        ELSE IF SideName[t.side] = "BUY" THEN t.quantity ELSE 0 - t.quantity)
         + TradedFrom(symbol, market, k + 1)

\* C19: share conservation.  In every reachable state the quantity held of each
\* (symbol, market) is >= 0 and is the quantity of its BUY trades less the
\* quantity of its SELL trades; two SELL orders never fill for more than was held.
C19_ShareConservation ==
  \A symbol \in Symbols, market \in Markets :
     /\ Held(symbol, market) >= 0
     /\ Held(symbol, market) = TradedFrom(symbol, market, 1)

\* two SELL orders are pending on a position that covers only one of them
C19_TwoSellsPending ==
  /\ Cardinality({o \in OrderView : o.side = "SELL" /\ o.status = "PENDING"}) = 2
  /\ \A o \in OrderView : o.side = "SELL" => Held(o.symbol, o.market) = o.quantity

(* ------------------ valuation: getOverview, getState ------------------- *)
\* value * rates[currency], as hi + lo / RateUnit cents
convertToUsd(value, currency) ==
  LET rate == exchangeRates[currency]
      low == (value % RateUnit) * rate
  IN [hi |-> (value \div RateUnit) * rate + low \div RateUnit, lo |-> low % RateUnit]

\* the sum of two such amounts
addUsd(a, b) ==
  [hi |-> a.hi + b.hi + (a.lo + b.lo) \div RateUnit, lo |-> (a.lo + b.lo) % RateUnit]

\* pos.lastPrice ?? pos.avgCost ?? 0, times the quantity (part_015 lines 187-188)
referenceValue(pos) ==
  IF pos.lastPrice # NoPrice THEN pos.lastPrice * pos.quantity
  ELSE (pos.avgCost \div AvgCostUnit) * pos.quantity

\* calculatePositionsValueByCurrency (part_015 lines 183-194), from the k-th position on
RECURSIVE calculatePositionsValueByCurrency(_, _)
calculatePositionsValueByCurrency(pos, k) ==
  IF k > Len(pos) THEN [c \in Currencies |-> 0]
  ELSE LET acc == calculatePositionsValueByCurrency(pos, k + 1)
           currency == marketToCurrency[pos[k].market]
       IN [acc EXCEPT ![currency] = @ + referenceValue(pos[k])]

\* getOverview (part_015 lines 200-242)
getOverview ==
  LET balances == [c \in Currencies |->
                     [current_cash |-> user[getCashKeys(MarketOf(c)).currentKey],
                      frozen_cash |-> user[getCashKeys(MarketOf(c)).frozenKey]]]
      positionsValueByCurrency == calculatePositionsValueByCurrency(positions, 1)
      term(c) == convertToUsd(balances[c].current_cash + balances[c].frozen_cash
                                + positionsValueByCurrency[c], c)
  IN [balancesByCurrency |-> balances,
      positionsValueByCurrency |-> positionsValueByCurrency,
      totalAssetsUsd |-> addUsd(addUsd(term("usd"), term("hkd")), term("cny"))]

\* the sum of pos.market_value by currency (tradingLogic.ts lines 54-58), from the k-th position on
RECURSIVE marketValueByCurrency(_, _)
marketValueByCurrency(pos, k) ==
  IF k > Len(pos) THEN [c \in Currencies |-> 0]
  ELSE LET acc == marketValueByCurrency(pos, k + 1)
           currency == IF pos[k].market = "US" THEN "usd"
                       ELSE IF pos[k].market = "HK" THEN "hkd" ELSE "cny"
       IN [acc EXCEPT ![currency] = @ + pos[k].market_value]

\* a valuation that writes every balance back converted to USD at the overview's rates
valueBalancesInUsd(overview, pos) ==
  [overview EXCEPT
     !.balances_by_currency =
        [c \in Currencies |->
           [@[c] EXCEPT !.current_cash = (@ \div RateUnit) * overview.exchange_rates[c]]]]

\* TradingLogic.updateOverviewPositionsValue (tradingLogic.ts lines 50-69): the overview it saves
updateOverviewPositionsValue(overview, pos) ==
  LET positionsValueByCurrency == marketValueByCurrency(pos, 1) IN
  [overview EXCEPT
     !.positions_value_by_currency = positionsValueByCurrency,
     !.positions_value_usd = positionsValueByCurrency.usd,
     !.total_assets_usd = overview.balances_by_currency.usd.current_cash
                            + overview.balances_by_currency.usd.frozen_cash
                            + positionsValueByCurrency.usd]

\* what the overview reports: the equity of a currency, and the total in USD
ReportedEquity(c) ==
  IF ledger = "server"
  THEN getOverview.balancesByCurrency[c].current_cash + getOverview.balancesByCurrency[c].frozen_cash
         + getOverview.positionsValueByCurrency[c]
  ELSE LET o == updateOverviewPositionsValue(trading_overview, trading_positions)
       IN o.balances_by_currency[c].current_cash + o.balances_by_currency[c].frozen_cash
            + o.positions_value_by_currency[c]

ReportedTotalUsd ==
  IF ledger = "server" THEN getOverview.totalAssetsUsd
  ELSE [hi |-> updateOverviewPositionsValue(trading_overview, trading_positions).total_assets_usd,
        lo |-> 0]

\* the value of the positions of a currency's market at last_price, from the k-th record on
RECURSIVE PositionsValue(_, _)
PositionsValue(c, k) ==
  IF ledger = "server"
  THEN IF k > Len(positions) THEN 0
       ELSE (IF marketToCurrency[positions[k].market] = c
             THEN positions[k].lastPrice * positions[k].quantity ELSE 0)
              + PositionsValue(c, k + 1)
  ELSE IF k > Len(trading_positions) THEN 0
       ELSE (IF marketToCurrency[trading_positions[k].market] = c
             THEN trading_positions[k].current_price * trading_positions[k].quantity ELSE 0)
              + PositionsValue(c, k + 1)

Equity(c) == CurrentCash(c) + FrozenCash(c) + PositionsValue(c, 1)

\* C20: valuation.  The equity the overview reports for a currency is
\* current_cash + frozen_cash + the value of that currency's positions at their
\* last price, and the total it reports in USD is the sum over the three
\* currencies of equity * exchange rate.
C20_Valuation ==
  /\ \A c \in Currencies : ReportedEquity(c) = Equity(c)
  /\ ReportedTotalUsd
       = addUsd(addUsd(convertToUsd(Equity("usd"), "usd"), convertToUsd(Equity("hkd"), "hkd")),
                convertToUsd(Equity("cny"), "cny"))

\* the ledger holds a position in a market whose currency is not USD
C20_HoldsHkPosition ==
  \E c \in Currencies \ {"usd"} : PositionsValue(c, 1) > 0

(* ------ two runs of the same operations under two rate snapshots ------- *)
\* the snapshot of the code, and another one
RateSnapshots == {exchangeRates, [usd |-> 10000, hkd |-> 1300, cny |-> 1400]}

\* MARKET orders of one quantity, in both markets
RatesInputs == { input \in PlaceOrderInputs : input.order_type = "MARKET" /\ input.quantity = 150 }

\* TradingLogic.getState (tradingLogic.ts lines 74-84): the overview is revalued and saved
GetState ==
  /\ ledger = "client"
  /\ trading_overview' = updateOverviewPositionsValue(trading_overview, trading_positions)
  /\ twin' = IF twin.on
             THEN [twin EXCEPT !.overview = updateOverviewPositionsValue(twin.overview, twin.positions)]
             ELSE twin
  /\ lastOp' = [op |-> "getState", result |-> "ok", orderNo |-> 0, price |-> NoPrice]
  /\ UNCHANGED <<ledger, serverVars, trading_positions, trading_orders, trading_trades,
                 quotes, now, escrow>>

\* getOverview of the server (part_015 lines 200-242): it builds its answer from copies
GetOverview ==
  /\ ledger = "server"
  /\ lastOp' = [op |-> "getOverview", result |-> "ok", orderNo |-> 0, price |-> NoPrice]
  /\ UNCHANGED <<ledger, serverVars, clientVars, escrow>>

RatesInit ==
  /\ InitialState
  /\ \/ ledger = "server" /\ twin = NoTwin
     \/ /\ ledger = "client"
        /\ twin \in {[NoTwin EXCEPT !.on = TRUE, !.overview.exchange_rates = r] : r \in RateSnapshots}

RatesNext ==
  \/ \E input \in RatesInputs, r \in PriceResults : PlaceOrder(input, r)
  \/ \E orderNo \in OrderNos : ExecuteOrderCall(orderNo)
  \/ \E orderNo \in OrderNos, r \in PriceResults : ExecuteOrderResume(orderNo, r)
  \/ \E orderNo \in OrderNos : CancelOrderCall(orderNo)
  \/ \E orderNo \in OrderNos, r \in PriceResults : CancelOrderResume(orderNo, r)
  \/ GetOverview
  \/ \E payload \in RatesInputs : ClientPlaceOrder(payload)
  \/ \E orderNo \in OrderNos : ClientCancelOrder(orderNo)
  \/ \E symbol \in QuoteSymbols, price \in Prices : UpdateQuotesAndPositions(symbol, price)
  \/ GetState
  \/ Tick

RatesSpec == RatesInit /\ [][RatesNext]_vars

\* the two runs have the same balances, positions, orders and trades
SettledAlike ==
  twin.on => /\ twin.overview.balances_by_currency = trading_overview.balances_by_currency
             /\ twin.overview.user = trading_overview.user
             /\ twin.positions = trading_positions
             /\ twin.orders = trading_orders
             /\ twin.trades = trading_trades

\* C21: exchange rates never influence settlement.  Two runs of the same
\* placements, fills and cancellations against the same quotes under different
\* exchange-rate snapshots have the same balances, positions, orders and trades
\* after every step, and computing the overview changes none of those.
C21_RatesNeverSettle ==
  [][/\ SettledAlike'
     /\ lastOp'.op \in {"getOverview", "getState"}
        => /\ UNCHANGED <<user, positions, orders, trades, nextIds,
                          trading_positions, trading_orders, trading_trades>>
           /\ trading_overview'.balances_by_currency = trading_overview.balances_by_currency
           /\ trading_overview'.user = trading_overview.user]_vars

\* the overview has been computed in two runs whose rates differ, after a fill in HK
C21_ValuedUnderTwoSnapshots ==
  /\ twin.on /\ twin.overview.exchange_rates # trading_overview.exchange_rates
  /\ lastOp.op = "getState"
  /\ \E k \in 1..Len(trading_trades) : trading_trades[k].market = "HK"

\* C22: serialization of the ledger.  An invocation of executeOrder or cancelOrder
\* that writes the ledger after its await acts on the order as it is then: the
\* order is PENDING in the state it resumes in, as in a run of the invocations
\* one at a time, and so no order is settled twice.
C22_Serialized ==
  [][lastOp'.op \in {"executeOrder", "cancelOrder"} /\ lastOp'.result \in {"executed", "true"}
     => \E o \in OrderView : o.no = lastOp'.orderNo /\ o.status = "PENDING"]_vars

\* an invocation has settled an order while another invocation of that order is suspended
C22_SettledWhileOtherInFlight ==
  /\ ledger = "server"
  /\ lastOp.op \in {"executeOrder", "cancelOrder"} /\ lastOp.result \in {"executed", "true"}
  /\ calls[<<"execute", lastOp.orderNo>>] + calls[<<"cancel", lastOp.orderNo>>] > 0

(* ------------- LIMIT placements with and without a price --------------- *)
\* LIMIT requests of one quantity whose price is missing, zero or positive
LimitInputs ==
  { [symbol |-> s, market |-> m, side |-> sd, order_type |-> "LIMIT", price |-> p, quantity |-> 150] :
      s \in Symbols, m \in Markets, sd \in Sides, p \in {NoPrice, 0, 5000} }

LimitNext ==
  \/ \E input \in LimitInputs, r \in PriceResults : PlaceOrder(input, r)
  \/ \E orderNo \in OrderNos : ExecuteOrderCall(orderNo)
  \/ \E orderNo \in OrderNos, r \in PriceResults : ExecuteOrderResume(orderNo, r)
  \/ \E orderNo \in OrderNos : CancelOrderCall(orderNo)
  \/ \E orderNo \in OrderNos, r \in PriceResults : CancelOrderResume(orderNo, r)
  \/ \E payload \in LimitInputs : ClientPlaceOrder(payload)
  \/ \E orderNo \in OrderNos : ClientCancelOrder(orderNo)
  \/ \E symbol \in QuoteSymbols, price \in Prices : UpdateQuotesAndPositions(symbol, price)
  \/ Tick

LimitSpec == Init /\ [][LimitNext]_vars

\* C23: every order of type LIMIT in the order set has a positive limit price; a
\* LIMIT placement whose price is missing, zero or negative creates no order.
C23_LimitHasPrice ==
  \A o \in OrderView : o.type = "LIMIT" => o.price > 0

\* a LIMIT placement that carries no price has just been accepted
C23_LimitPlacedWithoutPrice ==
  /\ lastOp.op = "placeOrder" /\ lastOp.result = "ok"
  /\ \E o \in OrderView : o.no = lastOp.orderNo /\ o.type = "LIMIT" /\ o.price = NoPrice

\* C24: place-then-fill net effect of a BUY.  When a BUY order is placed and then
\* filled with nothing in between, frozen_cash of its currency is back at its
\* value before the placement and current_cash is its value before the placement
\* minus the notional and the commission of the fill.
C24_PlaceThenFill ==
  [][\A o \in FilledInStep :
       /\ o.side = "BUY" /\ Cardinality(FilledInStep) = 1
       /\ lastOp.op \in {"placeOrder", "executePlaceOrder"} /\ lastOp.result = "ok"
       /\ lastOp.orderNo = o.no
       => \A t \in NewTrades : TradeOrderId(t) = o.id
            => /\ FrozenCash(marketToCurrency[o.market])' = escrow[o.id].cash.frozen
               /\ CurrentCash(marketToCurrency[o.market])'
                    = escrow[o.id].cash.current - (t.price * t.quantity + t.commission)]_vars

\* a BUY order has been placed and filled below the price that sized its escrow,
\* and nothing else has happened: it is the only order and its only trade
C24_FilledBelowEscrow ==
  /\ Cardinality(OrderView) = 1 /\ Len(TradeLog) = 1
  /\ \E o \in OrderView :
       /\ o.side = "BUY" /\ o.status = "FILLED"
       /\ TradeLog[1].price * o.quantity < escrow[o.id].frozen - TradeLog[1].commission

(* ------------- fills that are deferred, under fair scheduling ---------- *)
\* orders of one quantity in one market
RetryInputs == { input \in PlaceOrderInputs : input.market = "US" /\ input.quantity = 150 }

RetryNext ==
  \/ \E input \in RetryInputs, r \in PriceResults : PlaceOrder(input, r)
  \/ \E orderNo \in OrderNos : ExecuteOrderCall(orderNo)
  \/ \E orderNo \in OrderNos, r \in PriceResults : ExecuteOrderResume(orderNo, r)
  \/ \E orderNo \in OrderNos : CancelOrderCall(orderNo)
  \/ \E orderNo \in OrderNos, r \in PriceResults : CancelOrderResume(orderNo, r)
  \/ \E payload \in RetryInputs : ClientPlaceOrder(payload)
  \/ \E orderNo \in OrderNos : ClientCancelOrder(orderNo)
  \/ \E symbol \in QuoteSymbols, price \in Prices : UpdateQuotesAndPositions(symbol, price)
  \/ Tick

\* every price fetch that is awaited completes, and on the client market_data
\* messages with each quote of a traded symbol keep arriving; requests (place,
\* execute, cancel) come as the user sends them
RetryFairness ==
  /\ \A orderNo \in OrderNos : WF_vars(\E r \in PriceResults : ExecuteOrderResume(orderNo, r))
  /\ \A orderNo \in OrderNos : WF_vars(\E r \in PriceResults : CancelOrderResume(orderNo, r))
  /\ \A symbol \in Symbols, price \in Prices :
        <>[](ledger # "client") \/ []<><<UpdateQuotesAndPositions(symbol, price)>>_vars

RetrySpec == Init /\ [][RetryNext]_vars /\ RetryFairness

OrderPending(orderNo) == \E o \in OrderView : o.no = orderNo /\ o.status = "PENDING"

\* C25: deferred fills are retried.  While quotes keep arriving, an order that is
\* PENDING does not stay PENDING forever: it is eventually FILLED (or CANCELLED,
\* if its cancellation is requested).
C25_DeferredFillsRetried ==
  \A orderNo \in OrderNos : OrderPending(orderNo) ~> ~OrderPending(orderNo)

\* the first fill attempt of an order has answered without filling it, and no
\* invocation is suspended
C25_FirstAttemptDeferred ==
  /\ lastOp.op = "executeOrder"
  /\ lastOp.result \in {"not_executed", "price_unavailable"}
  /\ OrderPending(lastOp.orderNo)
  /\ SumOver(calls, CallKeys) = 0

\* the step was a fill attempt that filled nothing
FillFailed ==
  \/ /\ lastOp'.op = "executeOrder"
     /\ lastOp'.result \in {"not_executed", "price_unavailable", "insufficient_cash", "insufficient_position"}
  \/ lastOp'.op = "checkAndFillOrders" /\ lastOp'.result = "none"

\* C26: all-or-nothing fill.  In every reachable state an order has
\* filled_quantity = quantity if it is FILLED and filled_quantity = 0 otherwise,
\* and a fill attempt that fails leaves balances, holdings, trades and orders unchanged.
C26_AllOrNothing ==
  [][/\ \A o \in OrderView' : o.filled = IF o.status = "FILLED" THEN o.quantity ELSE 0
     /\ FillFailed
        => /\ UNCHANGED <<user, positions, orders, trades, nextIds,
                          trading_overview, trading_orders, trading_trades>>
           /\ \A symbol \in Symbols, market \in Markets : Held(symbol, market)' = Held(symbol, market)]_vars

\* a fill attempt has failed at execution time for want of cash or shares
C26_FillFailedAtExecution ==
  lastOp.op = "executeOrder" /\ lastOp.result \in {"insufficient_cash", "insufficient_position"}

\* the BUY orders of a currency that are PENDING
PendingBuys(currency) ==
  {o \in OrderView : o.side = "BUY" /\ o.status = "PENDING" /\ marketToCurrency[o.market] = currency}

\* the amounts frozen at placement by the PENDING BUY orders of a currency
OpenEscrow(currency) ==
  SumOver([k \in 1..Len(escrow) |-> escrow[k].frozen], {o.id : o \in PendingBuys(currency)})

\* C27: frozen cash is exactly the open escrow.  In every reachable state and for
\* each currency, frozen_cash is the sum of the amounts frozen at placement by the
\* BUY orders of that currency that are still PENDING (0 when there is none).
C27_FrozenIsOpenEscrow ==
  \A c \in Currencies : FrozenCash(c) = OpenEscrow(c)

\* a MARKET BUY has been filled at a price other than the one seen at its placement
C27_MarketBuyFilledOffPrice ==
  \E o \in OrderView, k \in 1..Len(TradeLog) :
     /\ o.side = "BUY" /\ o.type = "MARKET" /\ o.status = "FILLED" /\ TradeOrderId(TradeLog[k]) = o.id
     /\ escrow[o.id].frozen > 0
     /\ TradeLog[k].price * o.quantity + TradeLog[k].commission # escrow[o.id].frozen

\* C28: no over-commitment of cash.  In every reachable state the total escrow of
\* the PENDING BUY orders of a currency is at most the cash the account holds in
\* that currency, current_cash + frozen_cash.
C28_NoOverCommitment ==
  \A c \in Currencies : OpenEscrow(c) <= CurrentCash(c) + FrozenCash(c)

\* two BUY orders of one currency are PENDING together
C28_TwoBuysPending == \E c \in Currencies : Cardinality(PendingBuys(c)) = 2

\* C29: for every LIMIT BUY order the amount debited at its fill, the notional and
\* the commission of the trade, is at most the amount frozen at its placement.
C29_LimitBuyWithinEscrow ==
  \A o \in OrderView, k \in 1..Len(TradeLog) :
     o.side = "BUY" /\ o.type = "LIMIT" /\ TradeOrderId(TradeLog[k]) = o.id
     => TradeLog[k].price * TradeLog[k].quantity + TradeLog[k].commission <= escrow[o.id].frozen

\* a LIMIT BUY order has been filled
C29_LimitBuyFilled ==
  \E o \in OrderView :
     o.side = "BUY" /\ o.type = "LIMIT" /\ o.status = "FILLED" /\ TradesOf(o.id) > 0

\* the position records of the ledger in use, and the average cost of one
PositionList == IF ledger = "server" THEN positions ELSE trading_positions
AvgCostOf(p) == IF ledger = "server" THEN p.avgCost ELSE p.avg_cost

\* C30: a SELL fill of q shares at price p credits current_cash by exactly
\* p * q - commission(p * q), takes q off the quantity of the position, leaves the
\* average cost of the position as it was and leaves frozen_cash unchanged.
C30_SellFillFrame ==
  [][\A t \in NewTrades :
       Cardinality(NewTrades) = 1 /\ SideName[t.side] = "SELL"
       => LET c == marketToCurrency[t.market]
              idx == HeldIndex(PositionList, t)
              after == {p \in {PositionList'[k] : k \in 1..Len(PositionList')} :
                          p.id = PositionList[idx].id}
          IN /\ t.commission = CommissionOf(t.price, t.quantity, t.market)
             /\ CurrentCash(c)' = CurrentCash(c) + t.price * t.quantity - t.commission
             /\ FrozenCash(c)' = FrozenCash(c)
             /\ idx # 0
             /\ after = {} => PositionList[idx].quantity = t.quantity
             /\ \A p \in after : /\ p.quantity = PositionList[idx].quantity - t.quantity
                                 /\ AvgCostOf(p) = AvgCostOf(PositionList[idx])]_vars

\* two SELL orders have been filled by two sweeps, at different quotes
C30_SoldInTwoSweeps ==
  \E j \in 1..Len(TradeLog), k \in 1..Len(TradeLog) :
     /\ j < k /\ SideName[TradeLog[j].side] = "SELL" /\ SideName[TradeLog[k].side] = "SELL"
     /\ TradeLog[j].price # TradeLog[k].price

\* the step placed a SELL order, or cancelled a SELL order that was PENDING
SellPlaced ==
  Placed("ok") /\ \E o \in OrderView' : o.no = lastOp'.orderNo /\ o.side = "SELL"
SellCancelled ==
  /\ Cancelled("true") \/ Cancelled("ok")
  /\ \E o \in OrderView : o.no = lastOp'.orderNo /\ o.side = "SELL" /\ o.status = "PENDING"

\* C31: SELL orders carry no escrow.  Placing a SELL order and cancelling a PENDING
\* SELL order change only the order set, by a new PENDING order, respectively by
\* the status CANCELLED; current_cash, frozen_cash, the positions and the trades
\* are as before.
C31_SellCarriesNoEscrow ==
  [][SellPlaced \/ SellCancelled
     => /\ \A c \in Currencies : CurrentCash(c)' = CurrentCash(c) /\ FrozenCash(c)' = FrozenCash(c)
        /\ PositionList' = PositionList
        /\ TradeLog' = TradeLog
        /\ SellPlaced
           => \E o \in OrderView' : /\ o.no = lastOp'.orderNo /\ o.status = "PENDING" /\ o.filled = 0
                                    /\ OrderView' = OrderView \cup {o} /\ o \notin OrderView
        /\ SellCancelled
           => \E o \in OrderView : /\ o.no = lastOp'.orderNo
                                   /\ OrderView' = (OrderView \ {o}) \cup {[o EXCEPT !.status = "CANCELLED"]}]_vars

\* a PENDING SELL order with a price has just been cancelled
C31_SellOrderCancelled ==
  /\ lastOp.op \in {"cancelOrder", "executeCancelOrder"} /\ lastOp.result \in {"true", "ok"}
  /\ \E o \in OrderView : o.no = lastOp.orderNo /\ o.side = "SELL" /\ o.status = "CANCELLED" /\ o.price > 0

\* C32: positions are keyed by (symbol, market).  A SELL placement in market M is
\* admitted only by a position of the same symbol in M that holds the shares, and
\* a fill changes no position of another symbol or another market than its order's.
C32_KeyedBySymbolAndMarket ==
  [][/\ SellPlaced
        => \E o \in OrderView', k \in 1..Len(PositionList) :
              /\ o.no = lastOp'.orderNo
              /\ PositionList[k].symbol = o.symbol /\ PositionList[k].market = o.market
              /\ PositionList[k].quantity >= o.quantity
     /\ \A k \in 1..Len(PositionList) :
          /\ NewTrades # {}
          /\ \A t \in NewTrades : t.symbol # PositionList[k].symbol \/ t.market # PositionList[k].market
          => \E j \in 1..Len(PositionList') :
                /\ PositionList'[j].id = PositionList[k].id
                /\ PositionList'[j].quantity = PositionList[k].quantity
                /\ AvgCostOf(PositionList'[j]) = AvgCostOf(PositionList[k])]_vars

\* a SELL order exists in one market while the shares were bought in the other
C32_SellInOtherMarket ==
  \E o \in OrderView, k \in 1..Len(TradeLog) :
     /\ o.side = "SELL" /\ SideName[TradeLog[k].side] = "BUY"
     /\ TradeLog[k].symbol = o.symbol /\ TradeLog[k].market # o.market

\* the currencies of the orders the step placed, filled, cancelled or tried to
TouchedCurrencies ==
  {marketToCurrency[o.market] :
     o \in {o \in OrderView \cup OrderView' :
              /\ lastOp'.op \in {"placeOrder", "executePlaceOrder", "executeOrder",
                                 "cancelOrder", "executeCancelOrder"}
              /\ o.no = lastOp'.orderNo}}
    \cup {marketToCurrency[o.market] : o \in FilledInStep}

\* C33: currency isolation.  Placing, filling or cancelling an order of market M
\* changes current_cash and frozen_cash of M's currency only; the balances of
\* the other currencies are as before.
C33_CurrencyIsolation ==
  [][\A c \in Currencies \ TouchedCurrencies :
       CurrentCash(c)' = CurrentCash(c) /\ FrozenCash(c)' = FrozenCash(c)]_vars

\* an HK order has been filled while a US order is PENDING with cash frozen
C33_HkFilledBesideUs ==
  /\ \E o \in OrderView : o.market = "HK" /\ o.status = "FILLED" /\ o.side = "BUY"
  /\ \E o \in OrderView : o.market = "US" /\ o.status = "PENDING" /\ o.side = "BUY"
  /\ FrozenCash("usd") > 0

\* C34: a fill attempt on an order that is not PENDING is a no-op.  executeOrder
\* answering for an order that is FILLED or CANCELLED does not report executed: true and
\* leaves balances, positions, orders and trades unchanged, and a sweep of the
\* client leaves every order that is not PENDING as it is, with no trade for it.
C34_FillOnTerminalIsNoOp ==
  [][/\ /\ lastOp'.op = "executeOrder" /\ lastOp'.result # "await"
        /\ \E o \in OrderView : o.no = lastOp'.orderNo /\ o.status # "PENDING"
        => lastOp'.result # "executed" /\ LedgerUnchanged
     /\ lastOp'.op = "checkAndFillOrders"
        => \A o \in OrderView : o.status # "PENDING"
              => o \in OrderView' /\ TradesOf(o.id)' = TradesOf(o.id)]_vars

\* executeOrder has been called on a FILLED or CANCELLED order and has answered executed: false
C34_ExecuteRefused ==
  /\ lastOp.op = "executeOrder" /\ lastOp.result = "not_executed"
  /\ \E o \in OrderView : o.no = lastOp.orderNo /\ o.status # "PENDING"

\* C35: the fill sweep.  checkAndFillOrders takes the PENDING orders in the order
\* of their creation, each fill working on the ledger the fill before it left;
\* its filledCount is the number of orders it moved from PENDING to FILLED and
\* the number of trades it appended, one for each of those orders, and the
\* orders it did not fill are unchanged.
C35_SweepInOrder ==
  [][ledger = "client" /\ lastOp'.op = "checkAndFillOrders"
     => /\ lastOp'.orderNo = Cardinality(FilledInStep)
        /\ lastOp'.orderNo = Len(trading_trades') - Len(trading_trades)
        /\ \A o \in FilledInStep : o.filled = o.quantity /\ TradesOf(o.id)' = TradesOf(o.id) + 1
        /\ \A o \in OrderView : (\A f \in FilledInStep : f.no # o.no) => o \in OrderView'
        /\ \A i \in 1..Len(trading_trades'), j \in 1..Len(trading_trades') :
             Len(trading_trades) < i /\ i < j
             => trading_trades'[i].order_id < trading_trades'[j].order_id
        /\ \A c \in Currencies :
             (CurrentCash(c)' + FrozenCash(c)') - (CurrentCash(c) + FrozenCash(c))
               = TradeFlow(c, 1)' - TradeFlow(c, 1)]_vars

\* one sweep has just filled two orders
C35_TwoFilledInOneSweep ==
  ledger = "client" /\ lastOp.op = "checkAndFillOrders" /\ lastOp.orderNo = 2

\* C36: the fill sweep is idempotent on unchanged quotes.  Right after a sweep,
\* checkAndFillOrders run again on what the sweep left, with the same cached
\* quotes, fills nothing (filledCount = 0) and returns the same overview,
\* positions, orders and trades.
C36_SweepIdempotent ==
  ledger = "client" /\ lastOp.op = "checkAndFillOrders"
  => LET again == checkAndFillOrders(trading_overview, trading_positions,
                                     trading_orders, trading_trades, quotes)
     IN /\ again.filledCount = 0
        /\ again.overview = trading_overview
        /\ again.positions = trading_positions
        /\ again.orders = trading_orders
        /\ again.trades = trading_trades

\* a sweep has filled an order and left another one pending
C36_SweptWithOnePending ==
  /\ ledger = "client" /\ lastOp.op = "checkAndFillOrders" /\ lastOp.result = "filled"
  /\ \E k \in 1..Len(trading_orders) : trading_orders[k].status = "pending"

\* the user fields of an overview repeat its balances, currency by currency
CopiesEqual(overview) ==
  \A c \in Currencies :
    LET keys == getCashKeys(MarketOf(c)) IN
    /\ overview.user[keys.currentKey] = overview.balances_by_currency[c].current_cash
    /\ overview.user[keys.frozenKey] = overview.balances_by_currency[c].frozen_cash

\* C37: in the client ledger the two copies of each balance stay equal.  After
\* every executePlaceOrder, executeFillOrder and executeCancelOrder, for each
\* currency c, overview.user.current_cash_c = balances_by_currency[c].current_cash
\* and overview.user.frozen_cash_c = balances_by_currency[c].frozen_cash; an
\* operation that reports failure returns the overview it was given.
C37_CopiesStayEqual ==
  ledger = "client"
  => /\ CopiesEqual(trading_overview)
     /\ \A payload \in PlaceOrderInputs :
          LET result == executePlaceOrder(payload, trading_overview, trading_positions,
                                          trading_orders, trading_trades)
          IN IF result.success THEN CopiesEqual(result.overview)
             ELSE result.overview = trading_overview
     /\ \A orderNo \in 1..Len(trading_orders) :
          /\ LET result == executeFillOrder(orderNo, trading_overview, trading_positions,
                                            trading_orders, trading_trades, quotes)
             IN IF result.filled THEN CopiesEqual(result.overview)
                ELSE result.overview = trading_overview
          /\ LET result == executeCancelOrder(orderNo, trading_overview, trading_positions,
                                              trading_orders, trading_trades)
             IN IF result.success THEN CopiesEqual(result.overview)
                ELSE result.overview = trading_overview

\* orders have moved the balances of two currencies: Hong Kong dollars are frozen, US dollars have left the available cash
C37_BalancesOfTwoCurrenciesMoved ==
  /\ ledger = "client"
  /\ trading_overview.balances_by_currency["hkd"].frozen_cash > 0
  /\ trading_overview.balances_by_currency["usd"].current_cash < initialCapital["usd"]

(* ---------------- a pricing gateway that stops answering --------------- *)
\* fetchKline (part_017 lines 617-628) awaits fetch(url, {headers, method}): the
\* request carries no signal and no timer, so it settles when the gateway
\* answers (a response or a network error) and not before.  From this step on
\* the gateway answers nothing.
GatewayStops ==
  /\ ledger = "server"
  /\ gateway = "answers"
  /\ gateway' = "silent"
  /\ lastOp' = [op |-> "gatewayStops", result |-> "ok", orderNo |-> 0, price |-> NoPrice]
  /\ UNCHANGED <<ledger, user, positions, orders, trades, nextIds, calls, pushVars, clientVars, escrow>>

GatewayInit == ledger = "server" /\ InitialState /\ twin = NoTwin

GatewayNext ==
  \/ \E input \in RetryInputs, r \in PriceResults : PlaceOrder(input, r)
  \/ \E orderNo \in OrderNos : ExecuteOrderCall(orderNo)
  \/ \E orderNo \in OrderNos, r \in PriceResults : ExecuteOrderResume(orderNo, r)
  \/ \E orderNo \in OrderNos : CancelOrderCall(orderNo)
  \/ \E orderNo \in OrderNos, r \in PriceResults : CancelOrderResume(orderNo, r)
  \/ GatewayStops

\* the continuation of an await runs once the gateway has answered the fetch;
\* requests (place, execute, cancel) come as the user sends them
GatewayFairness ==
  /\ \A orderNo \in OrderNos : WF_vars(\E r \in PriceResults : ExecuteOrderResume(orderNo, r))
  /\ \A orderNo \in OrderNos : WF_vars(\E r \in PriceResults : CancelOrderResume(orderNo, r))

GatewaySpec == GatewayInit /\ [][GatewayNext]_vars /\ GatewayFairness

\* an invocation of the operation for the order is suspended at its await
InFlight(k) == calls[k] > 0

\* the step ends an invocation of the operation for the order: it returns or throws
Completes(k) == calls'[k] < calls[k]

\* C38: no ledger operation blocks indefinitely.  Every placeOrder, executeOrder
\* and cancelOrder invocation eventually completes (returns or fails), even when
\* the pricing gateway never answers the quote request.
\* (An invocation leaves its await only by a step that completes it, so "every
\* suspended invocation is followed by a completion" is: completions keep
\* occurring, or from some moment on nothing is suspended.)
C38_NoOperationBlocks ==
  \A k \in CallKeys : []<><<Completes(k)>>_vars \/ <>[]~InFlight(k)

\* an invocation is suspended at its await while the gateway has stopped answering
C38_AwaitingSilentGateway ==
  gateway = "silent" /\ \E k \in CallKeys : InFlight(k)

(* ------------------- websocket: the push throttle ---------------------- *)
\* a throttle that holds back forced pushes too
skipsWithinInterval(lastTime, at, force) == at - lastTime < PUSH_INTERVAL

\* sendSnapshot lines 101-107: the call returns without pushing
skipsPush(lastTime, at, force) == ~force /\ at - lastTime < PUSH_INTERVAL

\* sendSnapshot (lines 100-158): the throttle and, when it lets the call through,
\* lastPushTime.set before the first await; the market_data (or error) message
\* follows.  type is the message whose handler calls it.
sendSnapshot(type, userName, force) ==
  LET lastTime == lastPushTime[userName]
      skipped == skipsPush(lastTime, clock, force)
  IN /\ Len(pushes) < MaxPushes
     /\ lastPushTime' = IF skipped THEN lastPushTime ELSE [lastPushTime EXCEPT ![userName] = clock]
     /\ pushes' = Append(pushes, [user |-> userName, force |-> force, at |-> clock, sent |-> ~skipped])
     /\ lastOp' = [op |-> type, result |-> IF skipped THEN "skipped" ELSE "sent",
                   orderNo |-> 0, price |-> NoPrice]

PushFrame == UNCHANGED <<ledger, user, positions, orders, trades, nextIds, calls, gateway, clientVars, escrow>>

\* case 'bootstrap' up to its await of sendToUser (lines 176-185)
Bootstrap(ws, userName) ==
  /\ ledger = "server"
  /\ ~userId[ws].booting
  /\ userId' = [userId EXCEPT ![ws] = [user |-> userName, booting |-> TRUE]]
  /\ lastOp' = [op |-> "bootstrap", result |-> "ok", orderNo |-> 0, price |-> NoPrice]
  /\ UNCHANGED <<lastPushTime, clock, pushes>>
  /\ PushFrame

\* case 'bootstrap' from that await on (line 187): the forced push, to the user
\* the handler registered
BootstrapPush(ws, userName) ==
  /\ ledger = "server"
  /\ userId[ws].booting
  /\ sendSnapshot("bootstrap_ok", userName, TRUE)
  /\ userId' = [userId EXCEPT ![ws].booting = FALSE]
  /\ UNCHANGED clock
  /\ PushFrame

\* case 'subscribe' with a user_id (lines 190-197)
Subscribe(ws, userName) ==
  /\ ledger = "server"
  /\ sendSnapshot("subscribe", userName, TRUE)
  /\ userId' = [userId EXCEPT ![ws].user = userName]
  /\ UNCHANGED clock
  /\ PushFrame

\* case 'subscribe_quotes' with symbols (lines 206-224)
SubscribeQuotes(ws) ==
  /\ ledger = "server"
  /\ userId[ws].user # NoUser
  /\ sendSnapshot("subscribe_quotes", userId[ws].user, TRUE)
  /\ UNCHANGED <<clock, userId>>
  /\ PushFrame

\* case 'get_snapshot' (lines 333-337), and the push that ends a place_order or a
\* successful cancel_order (lines 255, 280)
GetSnapshot(ws) ==
  /\ ledger = "server"
  /\ userId[ws].user # NoUser
  /\ sendSnapshot("get_snapshot", userId[ws].user, FALSE)
  /\ UNCHANGED <<clock, userId>>
  /\ PushFrame

Delays == {3000, 5000}

\* time passes
Advance(d) ==
  /\ ledger = "server"
  /\ clock + d <= ClockStart + MaxSeconds * 1000
  /\ clock' = clock + d
  /\ lastOp' = [op |-> "advance", result |-> "ok", orderNo |-> 0, price |-> NoPrice]
  /\ UNCHANGED <<lastPushTime, userId, pushes>>
  /\ PushFrame

PushInit == ledger = "server" /\ InitialState /\ twin = NoTwin

PushNext ==
  \/ \E ws \in Sockets, userName \in Users : Bootstrap(ws, userName)
  \/ \E ws \in Sockets : BootstrapPush(ws, userId[ws].user)
  \/ \E ws \in Sockets, userName \in Users : Subscribe(ws, userName)
  \/ \E ws \in Sockets : SubscribeQuotes(ws)
  \/ \E ws \in Sockets : GetSnapshot(ws)
  \/ \E d \in Delays : Advance(d)

PushSpec == PushInit /\ [][PushNext]_vars

\* no push was let through for the user of the k-th call in the 5 seconds before it
WindowOver(k) ==
  \A j \in 1..(k - 1) :
    pushes[j].user = pushes[k].user /\ pushes[j].sent
    => pushes[k].at - pushes[j].at >= PUSH_INTERVAL

\* C39: the push throttle.  For each user, a non-forced sendSnapshot sends market
\* data exactly when at least 5 seconds have passed since the last push that was
\* let through for that user, and is skipped otherwise; a forced push is always
\* sent, and restarts the window as any push let through does.
C39_PushThrottle ==
  \A k \in 1..Len(pushes) :
    pushes[k].sent <=> (pushes[k].force \/ WindowOver(k))

\* the spec's example: a forced push, a non-forced one 3 s later that is skipped,
\* and a non-forced one 8 s after the first that is sent, all for one user
C39_SkippedThenSent ==
  /\ Len(pushes) = 3
  /\ \A k \in 1..3 : pushes[k].user = pushes[1].user
  /\ pushes[1].force /\ pushes[1].sent
  /\ ~pushes[2].force /\ ~pushes[2].sent /\ pushes[2].at = pushes[1].at + 3000
  /\ ~pushes[3].force /\ pushes[3].sent /\ pushes[3].at = pushes[1].at + 8000

====
